---- MODULE Spec2Model ----
(***************************************************************************)
(* Host-configuration service of BellNews2025 (ubuntu_config_service.py).  *)
(*                                                                         *)
(* The service receives network / time configuration requests and applies  *)
(* them to the host by writing configuration files and running commands    *)
(* through run_command.  A request is handled to completion before the    *)
(* next one is taken.  A handler is a sequence of steps, one action per    *)
(* external effect (a command run through run_command, a file written);    *)
(* req.pc is the handler's position, and the outcome of each process and   *)
(* of each write is chosen by the environment.                             *)
(*                                                                         *)
(* Texts are modelled as follows.  A file is a sequence of lines, a line a *)
(* sequence of tokens.  The diagnostic text of a process is the set of the *)
(* phrases it contains among those the code searches for, so that the      *)
(* code's `phrase in text` is set membership.  A string the code parses    *)
(* (a subnet mask, a date, an interface name) is looked up in Chars and    *)
(* parsed character by character.                                          *)
(***************************************************************************)
EXTENDS Integers, Sequences, FiniteSets, TLC

VARIABLES
    IN_DOCKER_TEST_MODE,   \* the mock/real flag read at process start
    osRelease,             \* /etc/os-release on the host
    netScan,               \* what scanning /sys/class/net yields
    fs,                    \* the configuration files, by path
    req                    \* the request in hand: body, position, trace, response

vars == <<IN_DOCKER_TEST_MODE, osRelease, netScan, fs, req>>

host == <<IN_DOCKER_TEST_MODE, osRelease, netScan>>

(***************************************************************************)
(* Python values                                                           *)
(***************************************************************************)
\* None, as returned by dict.get for a missing key.
None == "<None>"

\* Python truthiness of an optional string, as tested by all([...]) and `if x`.
Truthy(v) == v # None /\ v # ""

Range(s) == {s[i] : i \in 1..Len(s)}

Min(S) == CHOOSE x \in S : \A y \in S : x <= y

(***************************************************************************)
(* Paths and files                                                         *)
(***************************************************************************)
NETPLAN_CONFIG_FILE == "/etc/netplan/01-vcns-network.yaml"
DEFAULT_NTP_SERVER == "pool.ntp.org"
InterfacesPath == "/etc/network/interfaces"
BackupPath == "/etc/network/interfaces.backup"
NtpConfPath == "/etc/ntp.conf"

Paths == {InterfacesPath, BackupPath, NETPLAN_CONFIG_FILE, NtpConfPath}

Absent == [exists |-> FALSE, content |-> <<>>]
FileOf(lines) == [exists |-> TRUE, content |-> lines]

\* The interface file a 16.04 installation ships with.
OriginalInterfaces ==
    << <<"auto", "lo">>, <<"iface", "lo", "inet", "loopback">>,
       <<"source", "/etc/network/interfaces.d/*">> >>

(***************************************************************************)
(* External processes                                                      *)
(***************************************************************************)
\* What subprocess.run(check=True) can do: return (exit 0), raise
\* CalledProcessError (non-zero exit, with diagnostic text), raise
\* FileNotFoundError (no such executable).
ProcOk == [kind |-> "exit0", text |-> {}]
ProcFail(phrases) == [kind |-> "nonzero", text |-> phrases]
ProcMissing == [kind |-> "enoent", text |-> {}]
\* No process at all: the command was answered by the mock.
NotRun == [kind |-> "notrun", text |-> {}]

\* A text without the lease-release message.  It is not the service's: the
\* properties of the mock must tell it from Out.
OutEchoOnly(kind, name, text) ==
    [kind |-> IF kind = "mock_release" THEN "mock_echo" ELSE kind,
     name |-> name, text |-> text]

\* A failure text that is the diagnostic alone, without the words before it.
\* It is not the service's: the properties of the returned text must tell it
\* from Out.
OutBareDiagnostic(kind, name, text) ==
    [kind |-> IF kind = "failed" THEN "stdout" ELSE kind, name |-> name, text |-> text]

\* The text run_command returns beside the success flag.
Out(kind, name, text) == [kind |-> kind, name |-> name, text |-> text]
NoOut == Out("none", "", {})

\* A list without pkill.  It is not the service's: the properties of the
\* mock must tell it from MockedCommands.
MockedWithoutPkill == {"timedatectl", "netplan", "dhclient", "systemctl"}

MockedCommands == {"timedatectl", "netplan", "dhclient", "systemctl", "pkill"}

\* The fixed words each returned text begins with (lines 73, 74, 83, 91, 95,
\* 97, 99, 102); the output of a command that succeeded has none.
OutPrefix(kind) ==
    CASE kind = "mock_release" -> "Mocked: DHCP release successful."
      [] kind = "mock_echo" -> "Mocked: "
      [] kind = "not_found" -> "Command '"
      [] kind = "needs_systemd" -> "Cannot execute '"
      [] kind = "failed" -> "Command execution failed: "
      [] kind = "not_found_path" -> "Command '"
      [] kind = "unexpected" -> "An unexpected error occurred: "
      [] OTHER -> ""

\* The returned text is the empty string.
IsEmptyText(out) == OutPrefix(out.kind) = "" /\ out.text = {}

\* A strip of every leading sudo.  It is not the service's: the properties
\* of the prefix must tell it from StripSudo.
StripEverySudo(command_list) ==
    LET leading == {k \in 0..Len(command_list) :
                       \A i \in 1..k : command_list[i] = "sudo"}
        n == CHOOSE k \in leading : \A j \in leading : j <= k
    IN  SubSeq(command_list, n + 1, Len(command_list))

StripSudo(command_list) ==
    IF command_list # <<>> /\ command_list[1] = "sudo"
    THEN Tail(command_list) ELSE command_list

IsMocked(command_list) ==
    LET cl == StripSudo(command_list)
    IN  IN_DOCKER_TEST_MODE /\ cl # <<>> /\ cl[1] \in MockedCommands

run_command(command_list, proc) ==
    LET cl == StripSudo(command_list)
        Ret(ok, out, spawned) == [ok |-> ok, out |-> out, spawned |-> spawned]
    IN  IF IN_DOCKER_TEST_MODE /\ cl # <<>> /\ cl[1] \in MockedCommands
        THEN IF cl[1] = "dhclient" /\ "-r" \in Range(cl)
             THEN Ret(TRUE, Out("mock_release", cl[1], {}), FALSE)
             ELSE Ret(TRUE, Out("mock_echo", cl[1], {}), FALSE)
        ELSE IF cl = <<>>
        THEN Ret(FALSE, Out("unexpected", "", {}), FALSE)
        ELSE CASE proc.kind = "exit0" ->
                    Ret(TRUE, Out("stdout", cl[1], proc.text), TRUE)
               [] proc.kind = "nonzero" ->
                    IF \/ "command not found" \in proc.text
                       \/ "No such file or directory" \in proc.text
                    THEN Ret(FALSE, Out("not_found", cl[1], {}), TRUE)
                    ELSE IF \/ "systemd as init system (PID 1)" \in proc.text
                            \/ "Failed to connect to bus" \in proc.text
                    THEN Ret(FALSE, Out("needs_systemd", cl[1],
                                        {"systemd as init system (PID 1)"}), TRUE)
                    ELSE Ret(FALSE, Out("failed", cl[1], proc.text), TRUE)
               [] proc.kind = "enoent" ->
                    Ret(FALSE, Out("not_found_path", cl[1], {}), TRUE)
               [] OTHER ->
                    Ret(FALSE, Out("unexpected", cl[1], {}), TRUE)

\* The outcomes the environment may give a command the handlers run: none
\* when the mock answers, else success or a failure.
BasicProcs == {ProcOk, ProcFail({})}
Procs(command_list) ==
    IF IsMocked(command_list) THEN {NotRun} ELSE BasicProcs

\* cp of a file that does not exist fails; cp of one that exists may fail too
\* (read-only or full file system).
CpProcs(src) ==
    IF src.exists THEN BasicProcs
    ELSE {ProcFail({"No such file or directory"})}

(***************************************************************************)
(* Requests                                                                *)
(*                                                                         *)
(* req is the request in hand: its endpoint and body, the handler's        *)
(* position pc ("idle" between requests, "done" when the response is       *)
(* sent), the handler's locals (interface_name, the text to write, the     *)
(* exception on its way to the except clause, the latest `success, output` *)
(* in rc), the trace of the commands issued and the files written, the     *)
(* response, and the files as they were when the request arrived.          *)
(***************************************************************************)
CmdEvent(command_list, r) ==
    [kind |-> "cmd", cmd |-> command_list, ok |-> r.ok, spawned |-> r.spawned]
WriteEvent(path, ok) ==
    [kind |-> "write", cmd |-> <<path>>, ok |-> ok, spawned |-> FALSE]
LogEvent(level) ==
    [kind |-> "log", cmd |-> <<level>>, ok |-> TRUE, spawned |-> FALSE]

\* A message: the fixed prefixes and text, and the diagnostic it embeds.
Msg(prefix, text, detail) == [prefix |-> prefix, text |-> text, detail |-> detail]
NoRaise == Msg(<<>>, "", NoOut)

Response(code, status, message) ==
    [code |-> code, status |-> status, message |-> message]
NoResponse == Response(0, "", NoRaise)

NoResult == [ok |-> TRUE, out |-> NoOut, spawned |-> FALSE]

Begin(endpoint, data) ==
    [endpoint |-> endpoint, data |-> data, pc |-> "start",
     interface_name |-> None, text |-> <<>>, raised |-> NoRaise,
     rc |-> NoResult, trace |-> <<>>, resp |-> NoResponse, pre |-> fs]

\* No request is in hand.
Idle == req.pc = "idle"

IdleRequest ==
    [endpoint |-> "none", data |-> [json |-> "none"], pc |-> "idle",
     interface_name |-> None, text |-> <<>>, raised |-> NoRaise,
     rc |-> NoResult, trace |-> <<>>, resp |-> NoResponse, pre |-> <<>>]

Goto(r, pc) == [r EXCEPT !.pc = pc]

\* raise e, to be handled at position pc.
Raise(r, pc, e) == [r EXCEPT !.pc = pc, !.raised = e]

\* return jsonify({"status": status, "message": message}), code
Respond(r, code, status, message) ==
    [r EXCEPT !.pc = "done", !.resp = Response(code, status, message)]

\* Lines 415-420 and 562-567: a configurator's (success, message) as a response.
Return(r, success, message) ==
    IF success THEN Respond(r, 200, "success", message)
    ELSE Respond(r, 500, "error", message)

\* success, output = run_command(command_list), the process doing p.
Ran(r, command_list, p) ==
    LET res == run_command(command_list, p)
    IN  [r EXCEPT !.trace = Append(@, CmdEvent(command_list, res)), !.rc = res]

\* with open(path, 'w') as f: f.write(...) done, or raising OSError.
Wrote(r, path, how) ==
    [r EXCEPT !.trace = Append(@, WriteEvent(path, how = "written"))]

\* What with open(path, 'w') as f: f.write(text) can do: write the text;
\* raise at open(), the file untouched; raise after open() has truncated the
\* file, which then holds less than the text (here: nothing).
WriteOutcomes == {"written", "refused", "truncated"}

\* The files after cp src dst, and after a write.  A successful copy leaves
\* in dst what src holds.
Copied(files, src, dst, ok) ==
    IF ok THEN [files EXCEPT ![dst] = files[src]] ELSE files
\* A write that mock mode suppresses.  It is not the service's: the
\* properties of mock mode must tell it from Written.
WrittenUnlessMocked(files, path, lines, how) ==
    IF IN_DOCKER_TEST_MODE THEN files
    ELSE CASE how = "written" -> [files EXCEPT ![path] = FileOf(lines)]
           [] how = "truncated" -> [files EXCEPT ![path] = FileOf(<<>>)]
           [] OTHER -> files

Written(files, path, lines, how) ==
    CASE how = "written" -> [files EXCEPT ![path] = FileOf(lines)]
      [] how = "truncated" -> [files EXCEPT ![path] = FileOf(<<>>)]
      [] OTHER -> files

NoJson == Msg(<<>>, "No JSON data provided.", NoOut)

\* data.get(...) on a body that is no JSON object (lines 390 and 501, before
\* the handler's try) raises AttributeError out of the handler: the
\* framework answers 500 with its own error page, which is no JSON and has
\* no status or message; None stands for the status that is not there.
Unhandled(r) ==
    [r EXCEPT !.pc = "done",
              !.resp = Response(500, None, Msg(<<>>, "Internal Server Error", NoOut))]

(***************************************************************************)
(* Strings the code parses                                                 *)
(***************************************************************************)
\* The characters of a string as Python formats it into a text (None is
\* formatted as the word None).
Chars(s) ==
    CASE s = None -> <<"N", "o", "n", "e">>
      [] s = "" -> <<>>
      [] s = "lo" -> <<"l", "o">>
      [] s = "eth0" -> <<"e", "t", "h", "0">>
      [] s = "wlan0" -> <<"w", "l", "a", "n", "0">>
      [] s = "enp0s3" -> <<"e", "n", "p", "0", "s", "3">>
      [] s = "255.255.255.0" -> <<"2", "5", "5", ".", "2", "5", "5", ".", "2", "5", "5", ".", "0">>
      [] s = "255.0.255.0" -> <<"2", "5", "5", ".", "0", ".", "2", "5", "5", ".", "0">>
      [] s = "255.255.0.0" -> <<"2", "5", "5", ".", "2", "5", "5", ".", "0", ".", "0">>
      [] s = "255.255.255.255" ->
            <<"2", "5", "5", ".", "2", "5", "5", ".", "2", "5", "5", ".", "2", "5", "5">>
      [] s = "255.255.255.256" ->
            <<"2", "5", "5", ".", "2", "5", "5", ".", "2", "5", "5", ".", "2", "5", "6">>
      [] s = "0.0.0.0" -> <<"0", ".", "0", ".", "0", ".", "0">>
      [] s = "0.0.0.255" -> <<"0", ".", "0", ".", "0", ".", "2", "5", "5">>
      [] s = "255.255.255" -> <<"2", "5", "5", ".", "2", "5", "5", ".", "2", "5", "5">>
      [] s = "24" -> <<"2", "4">>
      [] s = "33" -> <<"3", "3">>
      [] s = "24/8" -> <<"2", "4", "/", "8">>
      [] s = "192.168.1.50" -> <<"1", "9", "2", ".", "1", "6", "8", ".", "1", ".", "5", "0">>
      [] s = "192.168.1.1" -> <<"1", "9", "2", ".", "1", "6", "8", ".", "1", ".", "1">>
      [] s = "1.1.1.1" -> <<"1", ".", "1", ".", "1", ".", "1">>
      [] s = "2024-01-15" -> <<"2", "0", "2", "4", "-", "0", "1", "-", "1", "5">>
      [] s = "2024-13-01" -> <<"2", "0", "2", "4", "-", "1", "3", "-", "0", "1">>
      [] s = "2023-02-29" -> <<"2", "0", "2", "3", "-", "0", "2", "-", "2", "9">>
      [] s = "10:00" -> <<"1", "0", ":", "0", "0">>
      [] s = "24:00" -> <<"2", "4", ":", "0", "0">>

Digits == <<"0", "1", "2", "3", "4", "5", "6", "7", "8", "9">>
IsDigit(c) == c \in Range(Digits)
DigitVal(c) == (CHOOSE i \in 1..Len(Digits) : Digits[i] = c) - 1
AllDigits(cs) == \A i \in 1..Len(cs) : IsDigit(cs[i])

RECURSIVE ParseNat(_)
ParseNat(cs) ==
    IF cs = <<>> THEN 0
    ELSE 10 * ParseNat(SubSeq(cs, 1, Len(cs) - 1)) + DigitVal(cs[Len(cs)])

\* str.split(sep): the fields between the separators.
RECURSIVE SplitOn(_, _)
SplitOn(cs, sep) ==
    IF cs = <<>> THEN << <<>> >>
    ELSE LET rest == SplitOn(Tail(cs), sep)
         IN  IF Head(cs) = sep THEN << <<>> >> \o rest
             ELSE << <<Head(cs)>> \o Head(rest) >> \o Tail(rest)

StartsWith(cs, prefix) ==
    Len(cs) >= Len(prefix) /\ SubSeq(cs, 1, Len(prefix)) = prefix

(***************************************************************************)
(* subnet_mask_to_cidr                                                     *)
(***************************************************************************)
\* "No prefix": the None that subnet_mask_to_cidr returns.
NoCidr == -1

\* ipaddress._ip_int_from_string, as the four octets: four fields of one to
\* three decimal digits, each at most 255 (the strings parsed here carry no
\* leading zeros).  <<>> stands for AddressValueError.
Ipv4Octets(cs) ==
    LET fields == SplitOn(cs, ".")
    IN  IF /\ Len(fields) = 4
           /\ \A i \in 1..4 : /\ fields[i] # <<>>
                              /\ AllDigits(fields[i])
                              /\ Len(fields[i]) <= 3
                              /\ ParseNat(fields[i]) <= 255
        THEN [i \in 1..4 |-> ParseNat(fields[i])]
        ELSE <<>>

\* The 32 bits of an address, most significant first.
AddressBits(octets) ==
    [i \in 1..32 |-> (octets[((i - 1) \div 8) + 1] \div (2 ^ (7 - ((i - 1) % 8)))) % 2]

\* ipaddress._prefix_from_ip_int: 32 minus the trailing zero bits, provided
\* all the bits before them are ones; NoCidr stands for ValueError.
PrefixFromBits(bits) ==
    LET ones == {i \in 1..32 : bits[i] = 1}
        trailing_zeroes == IF ones = {} THEN 32 ELSE 32 - (CHOOSE i \in ones : \A j \in ones : j <= i)
        prefixlen == 32 - trailing_zeroes
    IN  IF \A i \in 1..prefixlen : bits[i] = 1 THEN prefixlen ELSE NoCidr

\* ipaddress.IPv4Network('0.0.0.0/<mask>', strict=False).prefixlen: the mask
\* is tried as a prefix length, then as a netmask, then as a host mask; any
\* exception makes subnet_mask_to_cidr return None.
subnet_mask_to_cidr(subnet_mask) ==
    LET cs == Chars(subnet_mask)
        octets == Ipv4Octets(cs)
        bits == AddressBits(octets)
        inverted == [i \in 1..32 |-> 1 - bits[i]]
    IN  IF "/" \in Range(cs) THEN NoCidr
        ELSE IF cs # <<>> /\ AllDigits(cs) /\ Len(cs) <= 3 /\ ParseNat(cs) <= 32
        THEN ParseNat(cs)
        ELSE IF octets = <<>> THEN NoCidr
        ELSE IF PrefixFromBits(bits) # NoCidr THEN PrefixFromBits(bits)
        ELSE PrefixFromBits(inverted)

(***************************************************************************)
(* Environment detection                                                   *)
(***************************************************************************)
\* A classification that takes 18.04 for 16.04.  It is not the service's:
\* the properties of the dialect choice must tell it from _get_ubuntu_version.
VersionWith1804AsLegacy ==
    IF ~osRelease.readable THEN "modern"
    ELSE IF "VERSION_ID=\"16.04\"" \in osRelease.lines THEN "16.04"
    ELSE IF "VERSION_ID=\"18.04\"" \in osRelease.lines THEN "16.04"
    ELSE "modern"

\* A detection that stays with 16.04 once a 16.04 request has left its
\* backup copy behind.  It is not the service's: the properties of the
\* detection must tell it from _get_ubuntu_version.
VersionRememberingLegacy ==
    IF fs["/etc/network/interfaces.backup"].exists THEN "16.04"
    ELSE IF ~osRelease.readable THEN "modern"
    ELSE IF "VERSION_ID=\"16.04\"" \in osRelease.lines THEN "16.04"
    ELSE IF "VERSION_ID=\"18.04\"" \in osRelease.lines THEN "18.04"
    ELSE "modern"

_get_ubuntu_version ==
    IF ~osRelease.readable THEN "modern"
    ELSE IF "VERSION_ID=\"16.04\"" \in osRelease.lines THEN "16.04"
    ELSE IF "VERSION_ID=\"18.04\"" \in osRelease.lines THEN "18.04"
    ELSE "modern"

\* A discovery that takes the first adapter of the scan, wired or not.  It
\* is not the service's: the properties of the discovery must tell it from
\* PrimaryInterface.
FirstInterface(scan) ==
    IF ~scan.ok \/ scan.names = <<>> THEN None ELSE scan.names[1]

\* Lines 290-309 for a scan of /sys/class/net that raised (ok FALSE) or gave
\* the directories names, in the order of os.scandir.
PrimaryInterface(scan) ==
    IF ~scan.ok THEN None
    ELSE LET interfaces == scan.names
             wired == {i \in 1..Len(interfaces) :
                          \/ StartsWith(Chars(interfaces[i]), <<"e", "t", "h">>)
                          \/ StartsWith(Chars(interfaces[i]), <<"e", "n", "p">>)}
         IN  IF wired # {} THEN interfaces[Min(wired)]
             ELSE IF interfaces # <<>> THEN interfaces[1]
             ELSE None

_get_network_interface_name == PrimaryInterface(netScan)

(***************************************************************************)
(* Date and time parsing                                                   *)
(***************************************************************************)
IsLeap(y) == (y % 4 = 0 /\ y % 100 # 0) \/ y % 400 = 0

DaysIn(y, m) ==
    IF m = 2 THEN (IF IsLeap(y) THEN 29 ELSE 28)
    ELSE IF m \in {4, 6, 9, 11} THEN 30 ELSE 31

\* A field of one or two digits whose value lies in lo..hi (the strptime
\* patterns of %m, %d, %H and %M).
Field2(cs, lo, hi) ==
    /\ Len(cs) \in {1, 2}
    /\ AllDigits(cs)
    /\ ParseNat(cs) >= lo
    /\ ParseNat(cs) <= hi

\* A parser that matches the shape of the text only, taking any two digits
\* for a month, a day, an hour or a minute.  It is not the service's: the
\* properties of manual requests must tell it from strptime.
StrptimeShapeOnly(manual_date, manual_time) ==
    LET parts == SplitOn(Chars(manual_date) \o <<" ">> \o Chars(manual_time), " ")
        ymd == SplitOn(parts[1], "-")
        hm == SplitOn(parts[2], ":")
    IN  /\ Len(parts) = 2
        /\ Len(ymd) = 3
        /\ Len(hm) = 2
        /\ Len(ymd[1]) = 4 /\ AllDigits(ymd[1])
        /\ \A f \in {ymd[2], ymd[3], hm[1], hm[2]} : Len(f) \in {1, 2} /\ AllDigits(f)

\* datetime.strptime(f"{manual_date} {manual_time}", "%Y-%m-%d %H:%M")
\* returns (TRUE) or raises ValueError (FALSE): the text must match the
\* format as a whole, and the fields must make a date of the calendar.
StrptimeOk(manual_date, manual_time) ==
    LET parts == SplitOn(Chars(manual_date) \o <<" ">> \o Chars(manual_time), " ")
        ymd == SplitOn(parts[1], "-")
        hm == SplitOn(parts[2], ":")
    IN  /\ Len(parts) = 2
        /\ Len(ymd) = 3
        /\ Len(hm) = 2
        /\ Len(ymd[1]) = 4 /\ AllDigits(ymd[1])
        /\ Field2(ymd[2], 1, 12)
        /\ Field2(ymd[3], 1, 31)
        /\ Field2(hm[1], 0, 23)
        /\ Field2(hm[2], 0, 59)
        /\ ParseNat(ymd[1]) >= 1
        /\ ParseNat(ymd[3]) <= DaysIn(ParseNat(ymd[1]), ParseNat(ymd[2]))

(***************************************************************************)
(* Network configuration texts                                             *)
(***************************************************************************)
StaticRequired == "For static IP, ipAddress, subnetMask, and gateway are required."
InvalidIpType == "Invalid ipType: {ip_type}. Must be 'dynamic' or 'static'."
ErrApplyNet == "Error applying network settings: "


\* An interface file that names the DNS server of a dynamic request.  It is
\* not the service's: the properties of dynamic requests must tell it from
\* LegacyInterfacesConfig.
LegacyConfigDynamicWithDns(ip_type, ip_address, subnet_mask, gateway, dns_server, interface_name) ==
    IF ip_type = "dynamic"
    THEN [raised |-> NoRaise,
          text |-> << <<"auto", "lo">>, <<"iface", "lo", "inet", "loopback">>, <<>>,
                      <<"auto", interface_name>>,
                      <<"iface", interface_name, "inet", "dhcp">> >>
                   \o (IF Truthy(dns_server)
                       THEN << <<"dns-nameservers", dns_server>> >> ELSE <<>>)]
    ELSE IF ip_type = "static"
    THEN IF ~(Truthy(ip_address) /\ Truthy(subnet_mask) /\ Truthy(gateway))
         THEN [raised |-> Msg(<<>>, StaticRequired, NoOut), text |-> <<>>]
         ELSE [raised |-> NoRaise,
               text |-> << <<"auto", "lo">>, <<"iface", "lo", "inet", "loopback">>, <<>>,
                           <<"auto", interface_name>>,
                           <<"iface", interface_name, "inet", "static">>,
                           <<"address", ip_address>>,
                           <<"netmask", subnet_mask>>,
                           <<"gateway", gateway>>,
                           <<"dns-nameservers",
                             IF Truthy(dns_server) THEN dns_server ELSE "8.8.8.8">> >>]
    ELSE [raised |-> Msg(<<>>, InvalidIpType, NoOut), text |-> <<>>]

\* Lines 136-159: the text to write, or the ValueError raised.
LegacyInterfacesConfig(ip_type, ip_address, subnet_mask, gateway, dns_server, interface_name) ==
    IF ip_type = "dynamic"
    THEN [raised |-> NoRaise,
          text |-> << <<"auto", "lo">>, <<"iface", "lo", "inet", "loopback">>, <<>>,
                      <<"auto", interface_name>>,
                      <<"iface", interface_name, "inet", "dhcp">> >>]
    ELSE IF ip_type = "static"
    THEN IF ~(Truthy(ip_address) /\ Truthy(subnet_mask) /\ Truthy(gateway))
         THEN [raised |-> Msg(<<>>, StaticRequired, NoOut), text |-> <<>>]
         ELSE [raised |-> NoRaise,
               text |-> << <<"auto", "lo">>, <<"iface", "lo", "inet", "loopback">>, <<>>,
                           <<"auto", interface_name>>,
                           <<"iface", interface_name, "inet", "static">>,
                           <<"address", ip_address>>,
                           <<"netmask", subnet_mask>>,
                           <<"gateway", gateway>>,
                           <<"dns-nameservers",
                             IF Truthy(dns_server) THEN dns_server ELSE "8.8.8.8">> >>]
    ELSE [raised |-> Msg(<<>>, InvalidIpType, NoOut), text |-> <<>>]

(***************************************************************************)
(* Netplan (modern) network configuration                                  *)
(***************************************************************************)
\* A document that names 8.8.8.8 when no DNS server is given, as the 16.04
\* interface file does.  It is not the service's: the properties of the
\* document must tell it from _generate_netplan_yaml.
NetplanWithDefaultDns(ip_type, ip_address, subnet_mask, gateway, dns_server, interface_name) ==
    LET Doc(props) == [raised |-> NoRaise,
                       doc |-> [version |-> 2, renderer |-> "networkd",
                                interface |-> interface_name, props |-> props]]
        Invalid(text) == [raised |-> Msg(<<>>, text, NoOut), doc |-> <<>>]
        cidr == subnet_mask_to_cidr(subnet_mask)
    IN  IF ~Truthy(interface_name)
        THEN Invalid("Network interface name is required to generate Netplan configuration.")
        ELSE IF ip_type = "dynamic" THEN Doc([dhcp4 |-> TRUE])
        ELSE IF ip_type = "static"
        THEN IF ~(Truthy(ip_address) /\ Truthy(subnet_mask) /\ Truthy(gateway))
             THEN Invalid(StaticRequired)
             ELSE IF cidr = NoCidr
             THEN Invalid("Invalid subnet mask provided for CIDR conversion.")
             ELSE Doc([dhcp4 |-> FALSE,
                       addresses |-> << <<ip_address, "/", cidr>> >>,
                       routes |-> << [to |-> "default", via |-> gateway] >>,
                       nameservers |->
                           [addresses |-> <<IF Truthy(dns_server) THEN dns_server
                                            ELSE "8.8.8.8">>]])
        ELSE Invalid(InvalidIpType)

\* A builder that does not check the result of the mask conversion.  It is
\* not the service's: the properties of the declarative file must tell it
\* from _generate_netplan_yaml.
NetplanWithoutMaskCheck(ip_type, ip_address, subnet_mask, gateway, dns_server, interface_name) ==
    LET Doc(props) == [raised |-> NoRaise,
                       doc |-> [version |-> 2, renderer |-> "networkd",
                                interface |-> interface_name, props |-> props]]
        Invalid(text) == [raised |-> Msg(<<>>, text, NoOut), doc |-> <<>>]
        cidr == subnet_mask_to_cidr(subnet_mask)
        static == [dhcp4 |-> FALSE,
                   addresses |-> << <<ip_address, "/", cidr>> >>,
                   routes |-> << [to |-> "default", via |-> gateway] >>]
    IN  IF ~Truthy(interface_name)
        THEN Invalid("Network interface name is required to generate Netplan configuration.")
        ELSE IF ip_type = "dynamic" THEN Doc([dhcp4 |-> TRUE])
        ELSE IF ip_type = "static"
        THEN IF ~(Truthy(ip_address) /\ Truthy(subnet_mask) /\ Truthy(gateway))
             THEN Invalid(StaticRequired)
             ELSE IF Truthy(dns_server)
             THEN Doc([dhcp4 |-> FALSE, addresses |-> static.addresses,
                       routes |-> static.routes,
                       nameservers |-> [addresses |-> <<dns_server>>]])
             ELSE Doc(static)
        ELSE Invalid(InvalidIpType)

\* Lines 311-352: the document, or the ValueError raised.  props is the
\* mapping under network.ethernets.<interface_name>.
_generate_netplan_yaml(ip_type, ip_address, subnet_mask, gateway, dns_server, interface_name) ==
    LET Doc(props) == [raised |-> NoRaise,
                       doc |-> [version |-> 2, renderer |-> "networkd",
                                interface |-> interface_name, props |-> props]]
        Invalid(text) == [raised |-> Msg(<<>>, text, NoOut), doc |-> <<>>]
        cidr == subnet_mask_to_cidr(subnet_mask)
        static == [dhcp4 |-> FALSE,
                   addresses |-> << <<ip_address, "/", cidr>> >>,
                   routes |-> << [to |-> "default", via |-> gateway] >>]
    IN  IF ~Truthy(interface_name)
        THEN Invalid("Network interface name is required to generate Netplan configuration.")
        ELSE IF ip_type = "dynamic" THEN Doc([dhcp4 |-> TRUE])
        ELSE IF ip_type = "static"
        THEN IF ~(Truthy(ip_address) /\ Truthy(subnet_mask) /\ Truthy(gateway))
             THEN Invalid(StaticRequired)
             ELSE IF cidr = NoCidr
             THEN Invalid("Invalid subnet mask provided for CIDR conversion.")
             ELSE IF Truthy(dns_server)
             THEN Doc([dhcp4 |-> FALSE, addresses |-> static.addresses,
                       routes |-> static.routes,
                       nameservers |-> [addresses |-> <<dns_server>>]])
             ELSE Doc(static)
        ELSE Invalid(InvalidIpType)

\* yaml.dump(doc, default_flow_style=False, sort_keys=False): the lines of
\* the block-style document, keys in insertion order.
YamlDump(doc) ==
    LET p == doc.props
        Flag(b) == IF b THEN "true" ELSE "false"
        head == << <<"network:">>, <<"version:", "2">>, <<"renderer:", doc.renderer>>,
                   <<"ethernets:">>, <<doc.interface, ":">>,
                   <<"dhcp4:", Flag(p.dhcp4)>> >>
        addresses == IF "addresses" \in DOMAIN p
                     THEN << <<"addresses:">> >> \o
                          [i \in 1..Len(p.addresses) |-> <<"-">> \o p.addresses[i]]
                     ELSE <<>>
        routes == IF "routes" \in DOMAIN p
                  THEN << <<"routes:">> >> \o
                       [i \in 1..Len(p.routes) |->
                           <<"-", "to:", p.routes[i].to, "via:", p.routes[i].via>>]
                  ELSE <<>>
        nameservers == IF "nameservers" \in DOMAIN p
                       THEN << <<"nameservers:">>, <<"addresses:">> >> \o
                            [i \in 1..Len(p.nameservers.addresses) |->
                                <<"-", p.nameservers.addresses[i]>>]
                       ELSE <<>>
    IN  head \o addresses \o routes \o nameservers

(***************************************************************************)
(* Inputs and initial states                                               *)
(***************************************************************************)
\* The request bodies of /apply_network_settings: every combination of the
\* field values below, the empty body, and a non-empty JSON list.
NetData ==
    [json : {"object"},
     ipType : {"dynamic", "static", "bogus"},
     ipAddress : {None, "192.168.1.50"},
     subnetMask : {"", "255.255.255.0", "255.0.255.0"},
     gateway : {None, "192.168.1.1"},
     dnsServer : {None, "1.1.1.1"}]
    \cup {[json |-> j, ipType |-> None, ipAddress |-> None,
           subnetMask |-> None, gateway |-> None, dnsServer |-> None] :
             j \in {"empty", "list"}}

\* The request bodies of /apply_time_settings: NTP requests with or without
\* a server, manual (and unknown-type) requests with every combination of
\* the dates and times below, the empty body, and a non-empty JSON list.
TimeData ==
    [json : {"object"}, timeType : {"ntp"}, ntpServer : {None, "time.example.org"},
     manualDate : {None}, manualTime : {None}]
    \cup
    [json : {"object"}, timeType : {"manual", "bogus"}, ntpServer : {None},
     manualDate : {None, "2024-01-15", "2024-13-01", "2023-02-29"},
     manualTime : {None, "10:00", "24:00"}]
    \cup {[json |-> j, timeType |-> None, ntpServer |-> None,
           manualDate |-> None, manualTime |-> None] : j \in {"empty", "list"}}

Releases ==
    {[readable |-> TRUE, lines |-> {"NAME=\"Ubuntu\"", "VERSION_ID=\"16.04\""}],
     [readable |-> TRUE, lines |-> {"NAME=\"Ubuntu\"", "VERSION_ID=\"18.04\""}],
     [readable |-> TRUE, lines |-> {"NAME=\"Ubuntu\"", "VERSION_ID=\"22.04\""}],
     [readable |-> FALSE, lines |-> {}]}

Scans ==
    {[ok |-> FALSE, names |-> <<>>],
     [ok |-> TRUE, names |-> <<>>],
     [ok |-> TRUE, names |-> <<"wlan0", "eth0">>]}

Init ==
    /\ IN_DOCKER_TEST_MODE \in BOOLEAN
    /\ osRelease \in Releases
    /\ netScan \in Scans
    /\ fs = [p \in Paths |-> IF p = InterfacesPath THEN FileOf(OriginalInterfaces)
                                ELSE Absent]
    /\ req = IdleRequest

(***************************************************************************)
(* /apply_network_settings                                                 *)
(***************************************************************************)
\* Lines 385-413: the body is read, the interface and the release detected,
\* and the text to write is built, up to the first command or file write.
apply_network_settings ==
    /\ Idle
    /\ \E data \in NetData :
          LET r == Begin("network", data)
              interface_name == _get_network_interface_name
              legacy == LegacyInterfacesConfig(data.ipType, data.ipAddress,
                            data.subnetMask, data.gateway, data.dnsServer, interface_name)
              netplan_config == _generate_netplan_yaml(data.ipType, data.ipAddress,
                            data.subnetMask, data.gateway, data.dnsServer, interface_name)
              found == [r EXCEPT !.interface_name = interface_name]
          IN  req' =
                IF data.json = "empty" THEN Respond(r, 400, "error", NoJson)
                ELSE IF data.json = "list" THEN Unhandled(r)
                ELSE IF ~Truthy(interface_name)
                THEN Respond(r, 500, "error",
                        Msg(<<>>, "Could not detect network interface. Please configure manually.", NoOut))
                ELSE IF _get_ubuntu_version = "16.04"
                THEN IF legacy.raised # NoRaise
                     THEN Raise(found, "legacy_restore", legacy.raised)
                     ELSE [found EXCEPT !.pc = "legacy_backup", !.text = legacy.text]
                ELSE IF netplan_config.raised # NoRaise
                THEN Respond(found, 400, "error", netplan_config.raised)
                ELSE [found EXCEPT !.pc = "netplan_write",
                                   !.text = YamlDump(netplan_config.doc)]
    /\ UNCHANGED <<host, fs>>

\* Lines 161-162: copy the file to its backup; the outcome is not looked at.
LegacyBackup ==
    /\ req.pc = "legacy_backup"
    /\ \E p \in CpProcs(fs[InterfacesPath]) :
          LET r == Ran(req, <<"cp", InterfacesPath, BackupPath>>, p)
          IN  /\ fs' = Copied(fs, InterfacesPath, BackupPath, r.rc.ok)
              /\ req' = Goto(r, "legacy_write")
    /\ UNCHANGED host

\* Lines 164-173: overwrite the file; then the lease release if static.
LegacyWrite ==
    /\ req.pc = "legacy_write"
    /\ \E how \in WriteOutcomes :
          /\ fs' = Written(fs, InterfacesPath, req.text, how)
          /\ req' = IF how # "written"
                    THEN Raise(Wrote(req, InterfacesPath, how), "legacy_restore",
                               Msg(<<>>, "OSError", NoOut))
                    ELSE Goto(Wrote(req, InterfacesPath, how),
                              IF req.data.ipType = "static" THEN "legacy_release"
                              ELSE "legacy_restart")
    /\ UNCHANGED host

\* A lease release whose failure aborts the apply.  It is not the service's:
\* the properties of the apply sequence must tell it from LegacyRelease.
LegacyReleaseChecked ==
    /\ req.pc = "legacy_release"
    /\ \E p \in Procs(<<"dhclient", "-r", req.interface_name>>) :
          LET r == Ran(req, <<"dhclient", "-r", req.interface_name>>, p)
          IN  req' = IF r.rc.ok THEN Goto(r, "legacy_restart")
                     ELSE Raise(r, "legacy_restore",
                                Msg(<<>>, "Failed to release DHCP lease: ", r.rc.out))
    /\ UNCHANGED <<host, fs>>

\* Line 173: run_command(['dhclient', '-r', interface_name]), result dropped.
LegacyRelease ==
    /\ req.pc = "legacy_release"
    /\ \E p \in Procs(<<"dhclient", "-r", req.interface_name>>) :
          req' = Goto(Ran(req, <<"dhclient", "-r", req.interface_name>>, p),
                      "legacy_restart")
    /\ UNCHANGED <<host, fs>>

ApplyFailed(out) == Msg(<<>>, "Failed to apply network configuration: ", out)
AppliedOk == Msg(<<>>, "Network configuration applied successfully.", NoOut)

\* A restart that is tried a second time before the fallback.  It is not
\* the service's: the properties of the apply sequence must tell it from
\* LegacyRestart.
LegacyRestartRetried ==
    /\ req.pc = "legacy_restart"
    /\ \E p \in Procs(<<"service", "networking", "restart">>) :
          LET r == Ran(req, <<"service", "networking", "restart">>, p)
              tried == Cardinality({i \in 1..Len(r.trace) :
                           r.trace[i].cmd = <<"service", "networking", "restart">>})
          IN  req' = IF r.rc.ok THEN Return(r, TRUE, AppliedOk)
                     ELSE IF tried < 2 THEN Goto(r, "legacy_restart")
                     ELSE Goto(r, "legacy_ifdown")
    /\ UNCHANGED <<host, fs>>

\* Lines 176-177 (and 183-187 when the restart succeeded).
LegacyRestart ==
    /\ req.pc = "legacy_restart"
    /\ \E p \in Procs(<<"service", "networking", "restart">>) :
          LET r == Ran(req, <<"service", "networking", "restart">>, p)
          IN  req' = IF r.rc.ok THEN Return(r, TRUE, AppliedOk)
                     ELSE Goto(r, "legacy_ifdown")
    /\ UNCHANGED <<host, fs>>

\* Lines 179-180 (and 183-184 when ifdown failed).
LegacyIfdown ==
    /\ req.pc = "legacy_ifdown"
    /\ \E p \in Procs(<<"ifdown", req.interface_name>>) :
          LET r == Ran(req, <<"ifdown", req.interface_name>>, p)
          IN  req' = IF r.rc.ok THEN Goto(r, "legacy_ifup")
                     ELSE Raise(r, "legacy_restore", ApplyFailed(r.rc.out))
    /\ UNCHANGED <<host, fs>>

\* A fallback that restores the backup even when ifup succeeds.  It is not
\* the service's: the properties of the fallback must tell it from LegacyIfup.
LegacyIfupThenRestore ==
    /\ req.pc = "legacy_ifup"
    /\ \E p \in Procs(<<"ifup", req.interface_name>>) :
          LET r == Ran(req, <<"ifup", req.interface_name>>, p)
          IN  req' = Raise(r, "legacy_restore", ApplyFailed(r.rc.out))
    /\ UNCHANGED <<host, fs>>

\* Lines 181-187.
LegacyIfup ==
    /\ req.pc = "legacy_ifup"
    /\ \E p \in Procs(<<"ifup", req.interface_name>>) :
          LET r == Ran(req, <<"ifup", req.interface_name>>, p)
          IN  req' = IF r.rc.ok THEN Return(r, TRUE, AppliedOk)
                     ELSE Raise(r, "legacy_restore", ApplyFailed(r.rc.out))
    /\ UNCHANGED <<host, fs>>

\* An except clause that brings the interface up again after restoring the
\* file.  It is not the service's: the properties of the failed apply must
\* tell it from LegacyRestore.
LegacyRestoreThenIfup ==
    /\ req.pc = "legacy_restore"
    /\ \E p \in CpProcs(fs[BackupPath]), q \in Procs(<<"ifup", req.interface_name>>) :
          LET r == Ran(req, <<"cp", BackupPath, InterfacesPath>>, p)
              u == Ran(r, <<"ifup", req.interface_name>>, q)
          IN  /\ fs' = Copied(fs, BackupPath, InterfacesPath, r.rc.ok)
              /\ req' = Return(u, FALSE,
                               Msg(<<ErrApplyNet>> \o req.raised.prefix,
                                   req.raised.text, req.raised.detail))
    /\ UNCHANGED host

\* Lines 189-196, the except clause: copy the backup over the file and,
\* whatever the copy does, return failure with the exception's text.
LegacyRestore ==
    /\ req.pc = "legacy_restore"
    /\ \E p \in CpProcs(fs[BackupPath]) :
          LET r == Ran(req, <<"cp", BackupPath, InterfacesPath>>, p)
          IN  /\ fs' = Copied(fs, BackupPath, InterfacesPath, r.rc.ok)
              /\ req' = Return(r, FALSE,
                               Msg(<<ErrApplyNet>> \o req.raised.prefix,
                                   req.raised.text, req.raised.detail))
    /\ UNCHANGED host

_configure_legacy_network_ubuntu16 ==
    \/ LegacyBackup
    \/ LegacyWrite
    \/ LegacyRelease
    \/ LegacyRestart
    \/ LegacyIfdown
    \/ LegacyIfup
    \/ LegacyRestore

\* Lines 360-365: write the document (and 374-376 when the write raises).
NetplanWrite ==
    /\ req.pc = "netplan_write"
    /\ \E how \in WriteOutcomes :
          /\ fs' = Written(fs, NETPLAN_CONFIG_FILE, req.text, how)
          /\ req' = IF how = "written"
                    THEN Goto(Wrote(req, NETPLAN_CONFIG_FILE, how), "netplan_apply")
                    ELSE Return(Wrote(req, NETPLAN_CONFIG_FILE, how), FALSE,
                                Msg(<<ErrApplyNet>>, "OSError", NoOut))
    /\ UNCHANGED host

\* An apply that puts the earlier document back when netplan fails.  It is
\* not the service's: the properties of the failed apply must tell it from
\* NetplanApply.
NetplanApplyRestoring ==
    /\ req.pc = "netplan_apply"
    /\ \E p \in Procs(<<"netplan", "apply">>) :
          LET r == Ran(req, <<"netplan", "apply">>, p)
          IN  /\ req' = IF r.rc.ok
                        THEN Return(r, TRUE,
                                Msg(<<>>, "Netplan configuration applied successfully.", NoOut))
                        ELSE Return(r, FALSE,
                                Msg(<<ErrApplyNet>>, "Failed to apply Netplan configuration: ",
                                    r.rc.out))
              /\ fs' = IF r.rc.ok THEN fs
                       ELSE [fs EXCEPT ![NETPLAN_CONFIG_FILE] = req.pre[NETPLAN_CONFIG_FILE]]
    /\ UNCHANGED host

\* Lines 367-376: netplan apply.
NetplanApply ==
    /\ req.pc = "netplan_apply"
    /\ \E p \in Procs(<<"netplan", "apply">>) :
          LET r == Ran(req, <<"netplan", "apply">>, p)
          IN  req' = IF r.rc.ok
                     THEN Return(r, TRUE,
                             Msg(<<>>, "Netplan configuration applied successfully.", NoOut))
                     ELSE Return(r, FALSE,
                             Msg(<<ErrApplyNet>>, "Failed to apply Netplan configuration: ",
                                 r.rc.out))
    /\ UNCHANGED <<host, fs>>

_write_and_apply_netplan == NetplanWrite \/ NetplanApply

(***************************************************************************)
(* /disable_dhcp                                                           *)
(***************************************************************************)
\* A step that gives up at the first unexpected failure.  It is not the
\* service's: the properties of the teardown must tell it from Teardown.
TeardownAborting(r, command_list, benign, p, next) ==
    LET t == Ran(r, command_list, p)
        unexpected == ~t.rc.ok /\ \A b \in benign : b \notin t.rc.out.text
    IN  IF unexpected
        THEN Respond([t EXCEPT !.trace = Append(@, LogEvent("warning"))], 200, "success",
                     Msg(<<>>, "DHCP disabled successfully.", NoOut))
        ELSE [t EXCEPT !.trace = Append(@, LogEvent("info")), !.pc = next]

\* One step of lines 440-480: run the command, then log a warning if it
\* failed and its text holds none of the step's benign phrases, else an info.
\* The step neither returns nor raises: the next step follows in every case.
Teardown(r, command_list, benign, p, next) ==
    LET t == Ran(r, command_list, p)
        unexpected == ~t.rc.ok /\ \A b \in benign : b \notin t.rc.out.text
    IN  [t EXCEPT !.trace = Append(@, LogEvent(IF unexpected THEN "warning" ELSE "info")),
                  !.pc = next]

\* The outcomes of a teardown command: answered by the mock, or success, or
\* no such executable, or a failure whose diagnostic is empty or holds one
\* of the phrases.
DhcpProcs(command_list, phrases) ==
    IF IsMocked(command_list) THEN {NotRun}
    ELSE {ProcOk, ProcMissing, ProcFail({})} \cup {ProcFail({ph}) : ph \in phrases}

NmNotLoaded == "Unit NetworkManager.service not loaded"
ClientNotLoaded == "Unit isc-dhcp-client.service not loaded"
NoSuchFile == "No such file or directory"

\* A response that reports a failed step.  It is not the service's: the
\* properties of the teardown must tell it from DhcpDisabled.
DhcpDisabledIfClean(r) ==
    IF \E i \in 1..Len(r.trace) : ~r.trace[i].ok
    THEN Respond(r, 500, "error", Msg(<<>>, "DHCP could not be disabled.", NoOut))
    ELSE Respond(r, 200, "success", Msg(<<>>, "DHCP disabled successfully.", NoOut))

\* Lines 482-483.
DhcpDisabled(r) ==
    Respond(r, 200, "success", Msg(<<>>, "DHCP disabled successfully.", NoOut))

\* A teardown that starts without looking for the interface.  It is not the
\* service's: the properties of interface detection must tell it from
\* disable_dhcp.
DisableDhcpUnchecked ==
    /\ Idle
    /\ req' = [Begin("dhcp", [json |-> "none"])
               EXCEPT !.interface_name = _get_network_interface_name,
                      !.pc = "dhcp_release"]
    /\ UNCHANGED <<host, fs>>

\* Lines 434-438.
disable_dhcp ==
    /\ Idle
    /\ LET r == Begin("dhcp", [json |-> "none"])
           interface_name == _get_network_interface_name
       IN  req' = IF ~Truthy(interface_name)
                  THEN Respond(r, 500, "error",
                          Msg(<<>>, "Could not detect network interface to disable DHCP.", NoOut))
                  ELSE [r EXCEPT !.interface_name = interface_name, !.pc = "dhcp_release"]
    /\ UNCHANGED <<host, fs>>

\* Lines 441-445.
DhcpRelease ==
    /\ req.pc = "dhcp_release"
    /\ \E p \in DhcpProcs(<<"dhclient", "-r", req.interface_name>>, {"No DHCPOFF"}) :
          req' = Teardown(req, <<"dhclient", "-r", req.interface_name>>,
                          {"No DHCPOFF"}, p, "dhcp_nm_stop")
    /\ UNCHANGED <<host, fs>>

\* Lines 450-454.
DhcpStopNetworkManager ==
    /\ req.pc = "dhcp_nm_stop"
    /\ \E p \in DhcpProcs(<<"systemctl", "stop", "NetworkManager">>,
                          {"not running", NmNotLoaded}) :
          req' = Teardown(req, <<"systemctl", "stop", "NetworkManager">>,
                          {"not running", NmNotLoaded}, p, "dhcp_nm_disable")
    /\ UNCHANGED <<host, fs>>

\* Lines 456-460.
DhcpDisableNetworkManager ==
    /\ req.pc = "dhcp_nm_disable"
    /\ \E p \in DhcpProcs(<<"systemctl", "disable", "NetworkManager">>,
                          {NoSuchFile, NmNotLoaded}) :
          req' = Teardown(req, <<"systemctl", "disable", "NetworkManager">>,
                          {NoSuchFile, NmNotLoaded}, p, "dhcp_client_stop")
    /\ UNCHANGED <<host, fs>>

\* Lines 463-467.
DhcpStopClient ==
    /\ req.pc = "dhcp_client_stop"
    /\ \E p \in DhcpProcs(<<"systemctl", "stop", "isc-dhcp-client">>,
                          {"not running", ClientNotLoaded}) :
          req' = Teardown(req, <<"systemctl", "stop", "isc-dhcp-client">>,
                          {"not running", ClientNotLoaded}, p, "dhcp_client_disable")
    /\ UNCHANGED <<host, fs>>

\* Lines 469-473.
DhcpDisableClient ==
    /\ req.pc = "dhcp_client_disable"
    /\ \E p \in DhcpProcs(<<"systemctl", "disable", "isc-dhcp-client">>,
                          {NoSuchFile, ClientNotLoaded}) :
          req' = Teardown(req, <<"systemctl", "disable", "isc-dhcp-client">>,
                          {NoSuchFile, ClientNotLoaded}, p, "dhcp_pkill")
    /\ UNCHANGED <<host, fs>>

\* Lines 476-483.
DhcpPkill ==
    /\ req.pc = "dhcp_pkill"
    /\ \E p \in DhcpProcs(<<"pkill", "dhclient">>, {"No process found"}) :
          req' = DhcpDisabled(Teardown(req, <<"pkill", "dhclient">>,
                                       {"No process found"}, p, "dhcp_return"))
    /\ UNCHANGED <<host, fs>>

(***************************************************************************)
(* /apply_time_settings                                                    *)
(***************************************************************************)
ManualRequired == "For manual time, manualDate and manualTime are required."
InvalidDateTime == "Invalid date or time format. Use YYYY-MM-DD and HH:MM."
InvalidTimeType == "Invalid timeType. Must be 'ntp' or 'manual'."
ErrApplyTime == "Error applying time settings: "
NtpEnabled == Msg(<<>>, "NTP synchronization enabled successfully.", NoOut)
ManualSet == Msg(<<>>, "Manual time set successfully.", NoOut)

\* A choice of server that ignores the request.  It is not the service's:
\* the properties of /etc/ntp.conf must tell it from ServerOrPool.
AlwaysPool(ntp_server) == "pool.ntp.org"

\* ntp_server or 'pool.ntp.org'
ServerOrPool(ntp_server) == IF Truthy(ntp_server) THEN ntp_server ELSE "pool.ntp.org"

\* Lines 213-234: the text written to /etc/ntp.conf, line by line.
NtpConfig(ntp_server) ==
    << <<"# NTP configuration for Ubuntu 16.04">>,
       <<"driftfile", "/var/lib/ntp/ntp.drift">>,
       <<"statistics", "loopstats", "peerstats", "clockstats">>,
       <<"filegen", "loopstats", "file", "loopstats", "type", "day", "enable">>,
       <<"filegen", "peerstats", "file", "peerstats", "type", "day", "enable">>,
       <<"filegen", "clockstats", "file", "clockstats", "type", "day", "enable">>,
       <<>>,
       <<"# Use specified NTP server or default">>,
       <<"server", ServerOrPool(ntp_server), "iburst">>,
       <<"server", "0.ubuntu.pool.ntp.org", "iburst">>,
       <<"server", "1.ubuntu.pool.ntp.org", "iburst">>,
       <<>>,
       <<"# Access control">>,
       <<"restrict", "-4", "default", "kod", "notrap", "nomodify", "nopeer", "noquery", "limited">>,
       <<"restrict", "-6", "default", "kod", "notrap", "nomodify", "nopeer", "noquery", "limited">>,
       <<"restrict", "127.0.0.1">>,
       <<"restrict", "::1">>,
       <<>>,
       <<"# Local clock fallback">>,
       <<"server", "127.127.1.0">>,
       <<"fudge", "127.127.1.0", "stratum", "10">> >>

\* Lines 280-282, then 562-567: the except clause of the legacy configurator
\* turns the exception e into (False, message), which the route answers.
LegacyTimeError(r, e) ==
    Return(r, FALSE, Msg(<<ErrApplyTime>> \o e.prefix, e.text, e.detail))

\* The validation of a manual request (lines 251-258 and 536-542): the
\* message of the failure, or NoRaise.
ManualInvalid(manual_date, manual_time) ==
    IF ~(Truthy(manual_date) /\ Truthy(manual_time))
    THEN Msg(<<>>, ManualRequired, NoOut)
    ELSE IF ~StrptimeOk(manual_date, manual_time)
    THEN Msg(<<>>, InvalidDateTime, NoOut)
    ELSE NoRaise

\* Lines 201-202, 250-258, 277-278: the legacy configurator up to its first
\* command.
_configure_legacy_time_ubuntu16(r, time_type, ntp_server, manual_date, manual_time) ==
    IF time_type = "ntp" THEN Goto(r, "ntp_update")
    ELSE IF time_type = "manual"
    THEN IF ManualInvalid(manual_date, manual_time) # NoRaise
         THEN LegacyTimeError(r, ManualInvalid(manual_date, manual_time))
         ELSE Goto(r, "man_which")
    ELSE LegacyTimeError(r, Msg(<<"Invalid timeType: ", time_type>>,
                                ". Must be 'ntp' or 'manual'.", NoOut))

\* Lines 496-518, 535-542, 558-559: the route up to the first command.
apply_time_settings ==
    /\ Idle
    /\ \E data \in TimeData :
          LET r == Begin("time", data)
          IN  req' =
                IF data.json = "empty" THEN Respond(r, 400, "error", NoJson)
                ELSE IF data.json = "list" THEN Unhandled(r)
                ELSE IF _get_ubuntu_version = "16.04"
                THEN _configure_legacy_time_ubuntu16(r, data.timeType, data.ntpServer,
                                                     data.manualDate, data.manualTime)
                ELSE IF data.timeType = "ntp" THEN Goto(r, "mntp_disable")
                ELSE IF data.timeType = "manual"
                THEN IF ManualInvalid(data.manualDate, data.manualTime) # NoRaise
                     THEN Respond(r, 400, "error",
                                  ManualInvalid(data.manualDate, data.manualTime))
                     ELSE Goto(r, "mman_disable")
                ELSE Respond(r, 400, "error", Msg(<<>>, InvalidTimeType, NoOut))
    /\ UNCHANGED <<host, fs>>

\* run_command(command_list) at position pc, its result kept in rc, going on
\* to position next.
Step(pc, command_list, next) ==
    /\ req.pc = pc
    /\ \E p \in Procs(command_list) : req' = Goto(Ran(req, command_list, p), next)
    /\ UNCHANGED <<host, fs>>

\* run_command(['systemctl', verb, 'ntp']) if run_command(['which',
\* 'systemctl'])[0] else run_command(['service', 'ntp', verb]): the command
\* chosen by the result of `which`, which rc holds.
NtpService(verb) ==
    IF req.rc.ok THEN <<"systemctl", verb, "ntp">> ELSE <<"service", "ntp", verb>>

\* Line 206.
LegacyNtpUpdate == Step("ntp_update", <<"apt-get", "update">>, "ntp_install")

\* Line 207.
LegacyNtpInstall ==
    Step("ntp_install", <<"apt-get", "install", "-y", "ntpsec">>, "ntp_which_stop")

\* Line 210.
LegacyNtpWhichStop == Step("ntp_which_stop", <<"which", "systemctl">>, "ntp_stop")
LegacyNtpStop == Step("ntp_stop", NtpService("stop"), "ntp_write")

\* Lines 236-237.
LegacyNtpWrite ==
    /\ req.pc = "ntp_write"
    /\ \E how \in WriteOutcomes :
          /\ fs' = Written(fs, NtpConfPath, NtpConfig(req.data.ntpServer), how)
          /\ req' = IF how # "written"
                    THEN LegacyTimeError(Wrote(req, NtpConfPath, how),
                                         Msg(<<>>, "OSError", NoOut))
                    ELSE Goto(Wrote(req, NtpConfPath, how), "ntp_which_start")
    /\ UNCHANGED host

\* Lines 240-242.
LegacyNtpWhichStart == Step("ntp_which_start", <<"which", "systemctl">>, "ntp_start")
LegacyNtpStart ==
    /\ req.pc = "ntp_start"
    /\ \E p \in Procs(NtpService("start")) :
          LET r == Ran(req, NtpService("start"), p)
          IN  req' = IF ~r.rc.ok
                     THEN LegacyTimeError(r, Msg(<<>>, "Failed to start NTP service: ",
                                                 r.rc.out))
                     ELSE Goto(r, "ntp_sync")
    /\ UNCHANGED <<host, fs>>

\* A forced synchronization whose failure fails the operation.  It is not
\* the service's: the properties of the best-effort steps must tell it from
\* LegacyNtpSync.
LegacyNtpSyncChecked ==
    /\ req.pc = "ntp_sync"
    /\ \E p \in Procs(<<"ntpsec-ntpdate", "-s", ServerOrPool(req.data.ntpServer)>>) :
          LET r == Ran(req, <<"ntpsec-ntpdate", "-s",
                              ServerOrPool(req.data.ntpServer)>>, p)
          IN  req' = IF r.rc.ok THEN Return(r, TRUE, NtpEnabled)
                     ELSE LegacyTimeError(r, Msg(<<>>, "Failed to synchronize: ", r.rc.out))
    /\ UNCHANGED <<host, fs>>

\* Lines 245-248.
LegacyNtpSync ==
    /\ req.pc = "ntp_sync"
    /\ \E p \in Procs(<<"ntpsec-ntpdate", "-s", ServerOrPool(req.data.ntpServer)>>) :
          req' = Return(Ran(req, <<"ntpsec-ntpdate", "-s",
                                   ServerOrPool(req.data.ntpServer)>>, p),
                        TRUE, NtpEnabled)
    /\ UNCHANGED <<host, fs>>

\* Line 263.
LegacyManualWhich == Step("man_which", <<"which", "systemctl">>, "man_stop")
LegacyManualStop == Step("man_stop", NtpService("stop"), "man_date")

\* A timestamp without the seconds.  It is not the service's: the
\* properties of the manual sequence must tell it from DateString.
DateStringNoSeconds(manual_date, manual_time) == <<manual_date, " ", manual_time>>

\* The argument f"{manual_date} {manual_time}:00" of date -s and of
\* timedatectl set-time, as its pieces.
DateString(manual_date, manual_time) == <<manual_date, " ", manual_time, ":00">>

\* Lines 266-270.
LegacyManualDate ==
    /\ req.pc = "man_date"
    /\ LET command_list == <<"date", "-s">>
                           \o DateString(req.data.manualDate, req.data.manualTime)
       IN  \E p \in Procs(command_list) :
              LET r == Ran(req, command_list, p)
              IN  req' = IF ~r.rc.ok
                         THEN LegacyTimeError(r, Msg(<<>>, "Failed to set manual time: ",
                                                     r.rc.out))
                         ELSE Goto(r, "man_hwclock")
    /\ UNCHANGED <<host, fs>>

\* Lines 273-276.
LegacyManualHwclock ==
    /\ req.pc = "man_hwclock"
    /\ \E p \in Procs(<<"hwclock", "--systohc">>) :
          req' = Return(Ran(req, <<"hwclock", "--systohc">>, p), TRUE, ManualSet)
    /\ UNCHANGED <<host, fs>>

\* A disabling step that goes on whatever timedatectl answered.  It is not
\* the service's: the properties of the timedatectl sequences must tell it
\* from DisableNtp.
DisableNtpUnchecked(pc, next) ==
    /\ req.pc = pc
    /\ \E p \in Procs(<<"timedatectl", "set-ntp", "false">>) :
          req' = Goto(Ran(req, <<"timedatectl", "set-ntp", "false">>, p), next)
    /\ UNCHANGED <<host, fs>>

\* Lines 522-525 and 546-548: timedatectl set-ntp false; its failure is the
\* response.
DisableNtp(pc, next) ==
    /\ req.pc = pc
    /\ \E p \in Procs(<<"timedatectl", "set-ntp", "false">>) :
          LET r == Ran(req, <<"timedatectl", "set-ntp", "false">>, p)
          IN  req' = IF ~r.rc.ok
                     THEN Respond(r, 500, "error",
                                  Msg(<<>>, "Failed to disable NTP: ", r.rc.out))
                     ELSE Goto(r, next)
    /\ UNCHANGED <<host, fs>>

ModernNtpDisable == DisableNtp("mntp_disable", "mntp_enable")

\* Lines 528-533, 562-564.
ModernNtpEnable ==
    /\ req.pc = "mntp_enable"
    /\ \E p \in Procs(<<"timedatectl", "set-ntp", "true">>) :
          LET r == Ran(req, <<"timedatectl", "set-ntp", "true">>, p)
          IN  req' = IF ~r.rc.ok
                     THEN Respond(r, 500, "error",
                                  Msg(<<>>, "Failed to enable NTP: ", r.rc.out))
                     ELSE Return(r, TRUE, NtpEnabled)
    /\ UNCHANGED <<host, fs>>

ModernManualDisable == DisableNtp("mman_disable", "mman_settime")

\* A set-time step that reports success whatever timedatectl answered.  It
\* is not the service's: the properties of the manual sequence must tell it
\* from ModernManualSetTime.
ModernManualSetTimeLenient ==
    /\ req.pc = "mman_settime"
    /\ LET command_list == <<"timedatectl", "set-time">>
                           \o DateString(req.data.manualDate, req.data.manualTime)
       IN  \E p \in Procs(command_list) :
              req' = Return(Ran(req, command_list, p), TRUE, ManualSet)
    /\ UNCHANGED <<host, fs>>

\* Lines 551-557, 562-567.
ModernManualSetTime ==
    /\ req.pc = "mman_settime"
    /\ LET command_list == <<"timedatectl", "set-time">>
                           \o DateString(req.data.manualDate, req.data.manualTime)
       IN  \E p \in Procs(command_list) :
              LET r == Ran(req, command_list, p)
              IN  req' = IF r.rc.ok THEN Return(r, TRUE, ManualSet)
                         ELSE Return(r, FALSE, Msg(<<>>, "Failed to set manual time: ",
                                                   r.rc.out))
    /\ UNCHANGED <<host, fs>>

(***************************************************************************)
(* run_command called on its own                                           *)
(***************************************************************************)
\* The process never exits.
ProcHang == [kind |-> "hang", text |-> {}]
\* subprocess.run raises an OSError other than FileNotFoundError.
ProcOsError == [kind |-> "oserror", text |-> {}]

\* Every outcome of a process, with the diagnostics run_command looks for.
AllProcs ==
    {ProcOk, ProcMissing, ProcOsError, ProcHang, ProcFail({}),
     ProcFail({"command not found"}),
     ProcFail({"No such file or directory"}),
     ProcFail({"systemd as init system (PID 1)"}),
     ProcFail({"Failed to connect to bus"}),
     ProcFail({"Failed to connect to bus", "No such file or directory"})}

\* Command lists: those of the mocked names, others, each with and without
\* a leading sudo, two with sudo twice, and the empty ones.
SomeCommands ==
    LET plain == {<<"dhclient", "-r", "eth0">>, <<"dhclient", "-r", "wlan0">>,
                  <<"dhclient", "eth0">>,
                  <<"timedatectl", "set-ntp", "true">>, <<"netplan", "apply">>,
                  <<"systemctl", "stop", "ntp">>, <<"pkill", "dhclient">>,
                  <<"cp", InterfacesPath, BackupPath>>,
                  <<"service", "networking", "restart">>,
                  <<"which", "systemctl">>, <<"hwclock", "--systohc">>}
        twice == {<<"sudo", "sudo">> \o c :
                     c \in {<<"timedatectl", "set-ntp", "true">>, <<"which", "systemctl">>}}
    IN  plain \cup {<<"sudo">> \o c : c \in plain} \cup twice \cup {<<>>, <<"sudo">>}

\* Line 79 is reached with a command to spawn.
Spawns(command_list) ==
    StripSudo(command_list) # <<>> /\ ~IsMocked(command_list)

\* Lines 56-79: run_command is called; it returns at once when the mock
\* answers or there is nothing to run, else it waits in subprocess.run for
\* the process, whose outcome the environment has chosen.
CallRunCommand ==
    /\ Idle
    /\ \E command_list \in SomeCommands :
          \E p \in (IF Spawns(command_list) THEN AllProcs ELSE {NotRun}) :
             LET r == Begin("run_command",
                            [json |-> "none", command_list |-> command_list, proc |-> p])
             IN  req' = IF Spawns(command_list) THEN Goto(r, "subprocess")
                        ELSE Goto(Ran(r, command_list, p), "done")
    /\ UNCHANGED <<host, fs>>

\* Lines 79-102: the process is over (it has exited, or could not be
\* started), and run_command returns.  subprocess.run is given no timeout:
\* of a process that never exits, nothing follows.
ProcessEnds ==
    /\ req.pc = "subprocess"
    /\ req.data.proc # ProcHang
    /\ req' = Goto(Ran(req, req.data.command_list, req.data.proc), "done")
    /\ UNCHANGED <<host, fs>>

(***************************************************************************)
(* subnet_mask_to_cidr and _generate_netplan_yaml called on their own      *)
(***************************************************************************)
\* Masks: netmasks, a mask with a hole, a host mask, prefix lengths, and
\* texts that are no address.
SomeMasks ==
    {"0.0.0.0", "255.255.0.0", "255.255.255.0", "255.255.255.255",
     "255.0.255.0", "0.0.0.255", "24", "33", "24/8", "255.255.255",
     "255.255.255.256"}

\* Lines 105-115: the call and the value it returns, kept in rc.
CallSubnetMaskToCidr ==
    /\ Idle
    /\ \E subnet_mask \in SomeMasks :
          req' = [Begin("subnet_mask_to_cidr",
                        [json |-> "none", subnet_mask |-> subnet_mask])
                  EXCEPT !.pc = "done", !.rc = subnet_mask_to_cidr(subnet_mask)]
    /\ UNCHANGED <<host, fs>>

\* Lines 311-352: the call and the document it returns, or the ValueError
\* it raises, kept in rc.
CallGenerateNetplanYaml ==
    /\ Idle
    /\ \E ip_type \in {"dynamic", "static", "bogus"},
          ip_address \in {None, "192.168.1.50"},
          subnet_mask \in SomeMasks \cup {""},
          gateway \in {None, "192.168.1.1"},
          dns_server \in {None, "1.1.1.1"},
          interface_name \in {None, "eth0"} :
          req' = [Begin("_generate_netplan_yaml",
                        [json |-> "none", ipType |-> ip_type, ipAddress |-> ip_address,
                         subnetMask |-> subnet_mask, gateway |-> gateway,
                         dnsServer |-> dns_server, interface_name |-> interface_name])
                  EXCEPT !.pc = "done",
                         !.rc = _generate_netplan_yaml(ip_type, ip_address, subnet_mask,
                                                       gateway, dns_server, interface_name)]
    /\ UNCHANGED <<host, fs>>

(***************************************************************************)
(* _get_network_interface_name called on its own                           *)
(***************************************************************************)
\* Entries of /sys/class/net: adapters (links to directories) and the plain
\* file bonding_masters, which f.is_dir() leaves out.
ScanEntries ==
    {[name |-> n, is_dir |-> TRUE] : n \in {"lo", "wlan0", "eth0", "enp0s3"}}
        \cup {[name |-> "bonding_masters", is_dir |-> FALSE]}

MaxEntries == 3

\* The listings os.scandir can give: up to MaxEntries entries, none twice,
\* in any order.
SomeListings ==
    {l \in UNION {[1..n -> ScanEntries] : n \in 0..MaxEntries} :
        \A i, j \in DOMAIN l : i # j => l[i] # l[j]}

\* Line 292: [f.name for f in os.scandir('/sys/class/net') if f.is_dir()]
Adapters(listing) ==
    LET dirs == SelectSeq(listing, LAMBDA f : f.is_dir)
    IN  [i \in 1..Len(dirs) |-> dirs[i].name]

\* Lines 285-309: the call, for a scan that raises or gives a listing, and
\* the name it returns, kept in rc.
CallGetNetworkInterfaceName ==
    /\ Idle
    /\ \E ok \in BOOLEAN, listing \in SomeListings :
          req' = [Begin("_get_network_interface_name",
                        [json |-> "none", ok |-> ok, listing |-> listing])
                  EXCEPT !.pc = "done",
                         !.rc = PrimaryInterface([ok |-> ok, names |-> Adapters(listing)])]
    /\ UNCHANGED <<host, fs>>

(***************************************************************************)
(* The host between requests                                               *)
(***************************************************************************)
\* /etc/os-release is replaced (a release upgrade, a different image mounted
\* at the path) while no request is in hand.
ReleaseChanges ==
    /\ Idle
    /\ osRelease' \in Releases \ {osRelease}
    /\ UNCHANGED <<IN_DOCKER_TEST_MODE, netScan, fs, req>>

(***************************************************************************)
(* Properties                                                              *)
(***************************************************************************)
\* The response of the request in hand has been sent.
Done == req.pc = "done"

\* The commands the request has passed to run_command, and the files it has
\* opened for writing, in order.
Commands == SelectSeq(req.trace, LAMBDA e : e.kind = "cmd")
FileWrites == SelectSeq(req.trace, LAMBDA e : e.kind = "write")
CommandLists == [i \in 1..Len(Commands) |-> Commands[i].cmd]

Legacy == _get_ubuntu_version = "16.04"
Detected == Truthy(_get_network_interface_name)

StaticIncomplete(data) ==
    /\ data.json = "object"
    /\ data.ipType = "static"
    /\ ~(Truthy(data.ipAddress) /\ Truthy(data.subnetMask) /\ Truthy(data.gateway))

BadIpType(data) == data.json = "object" /\ data.ipType \notin {"dynamic", "static"}

\* C1: a static request without address, mask or gateway is rejected with
\* no file written and no command passed to run_command, on either dialect.
C1_IncompleteStaticTouchesNothing ==
    (req.endpoint = "network" /\ Done /\ StaticIncomplete(req.data))
        => /\ req.resp.status = "error"
           /\ req.trace = <<>>
           /\ fs = req.pre

\* The state C1 does not allow: a 16.04 host has rejected a static request
\* without a gateway, having run the restore copy.
C1_RestoreRanOnRejection ==
    /\ req.endpoint = "network" /\ Done /\ Legacy
    /\ StaticIncomplete(req.data)
    /\ req.resp.code = 500
    /\ CommandLists = << <<"cp", BackupPath, InterfacesPath>> >>

\* C2: on 16.04 a request that fails validation leaves the interface file
\* and its backup as they were when the request arrived.
C2_RejectionKeepsLegacyFiles ==
    (req.endpoint = "network" /\ Done /\ Legacy
        /\ (BadIpType(req.data) \/ StaticIncomplete(req.data)))
        => /\ fs[InterfacesPath] = req.pre[InterfacesPath]
           /\ fs[BackupPath] = req.pre[BackupPath]

\* The state C2 does not allow: the request found an applied configuration
\* in the interface file and, rejected, left the older backup in its place.
C2_RejectionRevertedApplied ==
    /\ req.endpoint = "network" /\ Done /\ Legacy
    /\ BadIpType(req.data) \/ StaticIncomplete(req.data)
    /\ req.pre[InterfacesPath] # FileOf(OriginalInterfaces)
    /\ fs[InterfacesPath] = FileOf(OriginalInterfaces)

\* A mask that is present and is not a netmask.
BadMask(data) ==
    /\ data.json = "object" /\ data.ipType = "static"
    /\ Truthy(data.ipAddress) /\ Truthy(data.subnetMask) /\ Truthy(data.gateway)
    /\ data.subnetMask = "255.0.255.0"

NetInvalid(data) ==
    \/ data.json = "empty"
    \/ BadIpType(data)
    \/ StaticIncomplete(data)
    \/ BadMask(data)

\* C3: with an interface detected, a network request that fails validation
\* is answered 400 on either dialect, and a 500 comes only with a command or
\* file write that failed.
C3_NetValidationIs400 ==
    (req.endpoint = "network" /\ Done /\ Detected)
        => /\ NetInvalid(req.data) => req.resp.code = 400
           /\ req.resp.code = 500 => \E i \in 1..Len(req.trace) : ~req.trace[i].ok

\* The state C3 does not allow: 16.04 answers an unknown ipType with 500.
C3_LegacyValidationIs500 ==
    /\ req.endpoint = "network" /\ Done /\ Detected /\ Legacy
    /\ BadIpType(req.data)
    /\ req.resp.code = 500

BadDates == {None, "2024-13-01", "2023-02-29"}
BadTimes == {None, "24:00"}

\* A manual request whose date and time are not both there, or are not a
\* timestamp of the calendar.
ManualUnparsable(data) ==
    /\ data.json = "object" /\ data.timeType = "manual"
    /\ data.manualDate \in BadDates \/ data.manualTime \in BadTimes

TimeInvalid(data) ==
    \/ data.json = "object" /\ data.timeType \notin {"ntp", "manual"}
    \/ ManualUnparsable(data)

\* C4: a time request that fails validation is answered 400 on either
\* dialect.
C4_TimeValidationIs400 ==
    (req.endpoint = "time" /\ Done /\ TimeInvalid(req.data)) => req.resp.code = 400

\* The state C4 does not allow: 16.04 answers month 13 with 500.
C4_LegacyValidationIs500 ==
    /\ req.endpoint = "time" /\ Done /\ Legacy
    /\ req.data.timeType = "manual"
    /\ req.data.manualDate = "2024-13-01" /\ req.data.manualTime = "10:00"
    /\ req.resp.code = 500
    /\ req.resp.message.text = InvalidDateTime

\* C5: a manual request whose date and time are missing or are not a
\* timestamp of the calendar is rejected, on either dialect, with the
\* required-field or the format error, no command passed to run_command.
C5_ManualRejectedBeforeCommands ==
    (req.endpoint = "time" /\ ManualUnparsable(req.data))
        => /\ Done
           /\ req.resp.status = "error"
           /\ req.resp.message.text \in {ManualRequired, InvalidDateTime}
           /\ Commands = <<>>
           /\ FileWrites = <<>>

C5_Month13Rejected ==
    /\ req.endpoint = "time" /\ Done /\ ~Legacy
    /\ req.data.timeType = "manual"
    /\ req.data.manualDate = "2024-13-01" /\ req.data.manualTime = "10:00"
    /\ req.resp.message.text = InvalidDateTime
    /\ Commands = <<>>

\* The interface file text of the request in hand.
Rendered ==
    LegacyInterfacesConfig(req.data.ipType, req.data.ipAddress, req.data.subnetMask,
                           req.data.gateway, req.data.dnsServer,
                           _get_network_interface_name).text

RestartCmd == <<"service", "networking", "restart">>
IfdownCmd == <<"ifdown", _get_network_interface_name>>
IfupCmd == <<"ifup", _get_network_interface_name>>
BackupCmd == <<"cp", InterfacesPath, BackupPath>>
RestoreCmd == <<"cp", BackupPath, InterfacesPath>>

Failed(command_list) ==
    \E i \in 1..Len(Commands) : Commands[i].cmd = command_list /\ ~Commands[i].ok
Succeeded(command_list) ==
    \E i \in 1..Len(Commands) : Commands[i].cmd = command_list /\ Commands[i].ok
Issued(command_list) == \E i \in 1..Len(Commands) : Commands[i].cmd = command_list

\* C6: on 16.04, when the restart fails and ifdown and ifup then succeed,
\* the request is answered with success, the interface file holds the
\* rendered configuration, and no restore copy is run.
C6_FallbackSuccessKeepsNewFile ==
    (req.endpoint = "network" /\ Done /\ Legacy
        /\ Failed(RestartCmd) /\ Succeeded(IfdownCmd) /\ Succeeded(IfupCmd))
        => /\ req.resp.code = 200
           /\ req.resp.status = "success"
           /\ fs[InterfacesPath] = FileOf(Rendered)
           /\ ~Issued(RestoreCmd)

C6_FallbackSucceeded ==
    /\ req.endpoint = "network" /\ Done /\ Legacy
    /\ req.data.ipType = "static"
    /\ Failed(RestartCmd) /\ Succeeded(IfdownCmd) /\ Succeeded(IfupCmd)
    /\ req.resp.code = 200
    /\ fs[InterfacesPath] = FileOf(Rendered)
    /\ fs[InterfacesPath] # req.pre[InterfacesPath]

\* C7: on 16.04, when the restart and the fallback both fail, the request is
\* answered with failure and the interface file is what it was when the
\* request arrived, whatever the two copies did.
C7_FailedApplyRestoresFile ==
    (req.endpoint = "network" /\ Done /\ Legacy
        /\ Failed(RestartCmd) /\ (Failed(IfdownCmd) \/ Failed(IfupCmd)))
        => /\ req.resp.code = 500
           /\ fs[InterfacesPath] = req.pre[InterfacesPath]

\* The state C7 does not allow: the backup was taken, restart and ifdown
\* failed, the restore copy failed, and the file holds the new text.
C7_NewTextLeftBehind ==
    /\ req.endpoint = "network" /\ Done /\ Legacy
    /\ Succeeded(BackupCmd) /\ Failed(RestartCmd) /\ Failed(IfdownCmd) /\ Failed(RestoreCmd)
    /\ req.resp.code = 500
    /\ fs[InterfacesPath] = FileOf(Rendered)
    /\ fs[InterfacesPath] # req.pre[InterfacesPath]

\* C8: on 16.04 the interface file is not modified by a request whose
\* backup copy failed.
C8_NoBackupNoOverwrite ==
    (req.endpoint = "network" /\ Legacy /\ Failed(BackupCmd))
        => fs[InterfacesPath] = req.pre[InterfacesPath]

\* The state C8 does not allow: the backup copy failed and the file was
\* overwritten all the same.
C8_OverwrittenWithoutBackup ==
    /\ req.endpoint = "network" /\ Legacy
    /\ Failed(BackupCmd)
    /\ fs[BackupPath] = req.pre[BackupPath]
    /\ fs[InterfacesPath] = FileOf(Rendered)
    /\ fs[InterfacesPath] # req.pre[InterfacesPath]

\* C9: /disable_dhcp answers 200 "success" when an interface is detected,
\* whatever its six commands did, and 500 when none is.
C9_DhcpAlwaysSucceeds ==
    (req.endpoint = "dhcp" /\ Done)
        => IF Detected
           THEN req.resp.code = 200 /\ req.resp.status = "success"
           ELSE req.resp.code = 500 /\ req.resp.status = "error"

C9_AllSixFailed ==
    /\ req.endpoint = "dhcp" /\ Done /\ Detected
    /\ Len(Commands) = 6
    /\ \A i \in 1..6 : ~Commands[i].ok
    /\ req.resp.code = 200

DhcpCommands ==
    << <<"dhclient", "-r", _get_network_interface_name>>,
       <<"systemctl", "stop", "NetworkManager">>,
       <<"systemctl", "disable", "NetworkManager">>,
       <<"systemctl", "stop", "isc-dhcp-client">>,
       <<"systemctl", "disable", "isc-dhcp-client">>,
       <<"pkill", "dhclient">> >>

\* C10: with an interface detected, /disable_dhcp passes its six commands to
\* run_command in the fixed order, each once, whatever the earlier ones did:
\* at every moment the commands issued are the first few of the six, and at
\* the response they are all six.
C10_SixCommandsInOrder ==
    (req.endpoint = "dhcp" /\ Detected)
        => /\ Len(CommandLists) <= 6
           /\ CommandLists = SubSeq(DhcpCommands, 1, Len(CommandLists))
           /\ Done => CommandLists = DhcpCommands

C10_FirstFailedRestRan ==
    /\ req.endpoint = "dhcp" /\ Done /\ Detected
    /\ ~Commands[1].ok /\ ~Commands[3].ok
    /\ Commands[6].ok /\ Commands[6].spawned
    /\ CommandLists = DhcpCommands

\* The command run_command was called with, its leading sudo removed.
Called == StripSudo(req.data.command_list)
MockedNames == {"timedatectl", "netplan", "dhclient", "systemctl", "pkill"}
Returned == req.endpoint = "run_command" /\ Done
MockAnswers == IN_DOCKER_TEST_MODE /\ Called # <<>> /\ Called[1] \in MockedNames

\* C11: in mock mode run_command answers dhclient with -r with success and
\* the lease-release message, and every other mocked command with success
\* and the generic echo.
C11_MockReleaseMessage ==
    (Returned /\ MockAnswers)
        => /\ req.rc.ok
           /\ req.rc.out.kind =
                 IF Called[1] = "dhclient" /\ \E i \in 2..Len(Called) : Called[i] = "-r"
                 THEN "mock_release" ELSE "mock_echo"

C11_SudoReleaseMocked ==
    /\ Returned /\ IN_DOCKER_TEST_MODE
    /\ req.data.command_list = <<"sudo", "dhclient", "-r", "wlan0">>
    /\ req.rc.ok
    /\ req.rc.out.kind = "mock_release"

\* C12: the mode never changes; in mock mode a command of the five names
\* is answered with success and no call of subprocess.run, and every other
\* command, and every command in real mode, goes to subprocess.run.
C12_ModeFixedMockNeverSpawns ==
    /\ [](req.endpoint = "run_command" =>
            /\ req.pc = "subprocess" => ~MockAnswers
            /\ Done => IF MockAnswers THEN req.rc.ok /\ ~req.rc.spawned
                       ELSE Called # <<>> => req.rc.spawned)
    /\ [][IN_DOCKER_TEST_MODE' = IN_DOCKER_TEST_MODE]_vars

C12_SudoPkillMocked ==
    /\ Returned /\ IN_DOCKER_TEST_MODE
    /\ req.data.command_list = <<"sudo", "pkill", "dhclient">>
    /\ req.rc.ok /\ ~req.rc.spawned
    /\ Commands[1].cmd = <<"sudo", "pkill", "dhclient">>

\* C13: a call of run_command that waits for a process returns in the end.
C13_RunCommandReturns == (req.pc = "subprocess") ~> Done

\* The state C13 does not allow to last: run_command waiting for a process
\* that never exits.
C13_WaitingForever ==
    /\ req.endpoint = "run_command" /\ req.pc = "subprocess"
    /\ ~IN_DOCKER_TEST_MODE
    /\ req.data.proc = ProcHang

\* C14: in real mode run_command answers "not found" exactly when there is
\* no such executable; a command that ran and exited non-zero is never
\* reported as not found.
C14_NotFoundIffAbsent ==
    (Returned /\ ~IN_DOCKER_TEST_MODE /\ Called # <<>>)
        => (req.rc.out.kind \in {"not_found", "not_found_path"}
               <=> req.data.proc = ProcMissing)

\* The state C14 does not allow: cp ran, failed for want of its source, and
\* is reported as not found.
C14_CpReportedNotFound ==
    /\ Returned /\ ~IN_DOCKER_TEST_MODE
    /\ req.data.command_list = <<"cp", InterfacesPath, BackupPath>>
    /\ req.data.proc = ProcFail({"No such file or directory"})
    /\ req.rc.out.kind = "not_found"

\* C15: a command that exits non-zero with one of the two systemd / D-Bus
\* diagnostics in its text is answered with the rewritten message.
C15_SystemdRewrite ==
    (Returned /\ req.data.proc.kind = "nonzero"
        /\ req.data.proc.text \cap {"systemd as init system (PID 1)",
                                   "Failed to connect to bus"} # {})
        => ~req.rc.ok /\ req.rc.out.kind = "needs_systemd"

\* The state C15 does not allow: "Failed to connect to bus: No such file or
\* directory" is reported as a command not found.
C15_BusReportedNotFound ==
    /\ Returned
    /\ req.data.command_list = <<"timedatectl", "set-ntp", "true">>
    /\ req.data.proc = ProcFail({"Failed to connect to bus", "No such file or directory"})
    /\ req.rc.out.kind = "not_found"

\* The host's release text can be read and holds VERSION_ID="16.04".
HostIs1604 == osRelease.readable /\ "VERSION_ID=\"16.04\"" \in osRelease.lines

\* What only the Legacy configurators do, and what only the Modern ones do:
\* their commands, the files they write, their positions.
LegacyNames ==
    {"cp", "service", "ifdown", "ifup", "dhclient", "apt-get", "which", "date",
     "hwclock", "ntpsec-ntpdate", "systemctl", InterfacesPath, NtpConfPath}
ModernNames == {"netplan", "timedatectl", NETPLAN_CONFIG_FILE}
LegacyPositions ==
    {"legacy_backup", "legacy_write", "legacy_release", "legacy_restart",
     "legacy_ifdown", "legacy_ifup", "legacy_restore",
     "ntp_update", "ntp_install", "ntp_which_stop", "ntp_stop", "ntp_write",
     "ntp_which_start", "ntp_start", "ntp_sync",
     "man_which", "man_stop", "man_date", "man_hwclock"}
ModernPositions ==
    {"netplan_write", "netplan_apply", "mntp_disable", "mntp_enable",
     "mman_disable", "mman_settime"}
ActsAsLegacy ==
    \/ req.pc \in LegacyPositions
    \/ \E i \in 1..Len(req.trace) :
          req.trace[i].kind \in {"cmd", "write"} /\ req.trace[i].cmd[1] \in LegacyNames
ActsAsModern ==
    \/ req.pc \in ModernPositions
    \/ \E i \in 1..Len(req.trace) :
          req.trace[i].kind \in {"cmd", "write"} /\ req.trace[i].cmd[1] \in ModernNames

\* C16: a network or time request that gets to a configurator is handled by
\* the Legacy one if and only if the release text is readable and holds
\* VERSION_ID="16.04", and by the Modern one otherwise.
C16_DialectBy1604 ==
    (req.endpoint \in {"network", "time"} /\ (ActsAsLegacy \/ ActsAsModern))
        => /\ ActsAsLegacy <=> HostIs1604
           /\ ActsAsModern <=> ~HostIs1604

C16_ModernTimeOn1804 ==
    /\ req.endpoint = "time" /\ Done
    /\ osRelease.readable /\ "VERSION_ID=\"18.04\"" \in osRelease.lines
    /\ ~IN_DOCKER_TEST_MODE
    /\ CommandLists = << <<"timedatectl", "set-ntp", "false">>,
                         <<"timedatectl", "set-ntp", "true">> >>
    /\ req.resp.code = 200

\* The netmasks among the masks, with their prefix lengths.
NetmaskPrefix ==
    ("0.0.0.0" :> 0) @@ ("255.255.0.0" :> 16) @@ ("255.255.255.0" :> 24)
        @@ ("255.255.255.255" :> 32)

\* A call of _generate_netplan_yaml for a static document that returned one.
StaticDocument ==
    /\ req.endpoint = "_generate_netplan_yaml" /\ Done
    /\ req.data.ipType = "static"
    /\ req.rc.raised = NoRaise

\* C17: subnet_mask_to_cidr returns the prefix length of a netmask and None
\* for every other text (a mask with a hole, a host mask, a bare prefix
\* length), and a static document carries the prefix length of its netmask.
C17_PrefixOnlyOfNetmask ==
    /\ (req.endpoint = "subnet_mask_to_cidr" /\ Done)
          => req.rc = IF req.data.subnet_mask \in DOMAIN NetmaskPrefix
                      THEN NetmaskPrefix[req.data.subnet_mask] ELSE NoCidr
    /\ StaticDocument
          => /\ req.data.subnetMask \in DOMAIN NetmaskPrefix
             /\ req.rc.doc.props.addresses =
                   << <<req.data.ipAddress, "/", NetmaskPrefix[req.data.subnetMask]>> >>

\* The state C17 does not allow: the host mask 0.0.0.255 converted to 24.
C17_HostMaskConverted ==
    /\ req.endpoint = "subnet_mask_to_cidr" /\ Done
    /\ req.data.subnet_mask = "0.0.0.255"
    /\ req.rc = 24

\* The arguments are those of a static intent with a netmask, and of a
\* dynamic intent.
ValidStatic ==
    /\ req.data.ipType = "static"
    /\ Truthy(req.data.interface_name)
    /\ Truthy(req.data.ipAddress) /\ Truthy(req.data.gateway)
    /\ req.data.subnetMask \in DOMAIN NetmaskPrefix

\* C18: for a valid static intent the document has dhcp4 false, the one
\* address <address>/<prefix>, the one default route via the gateway, and
\* nameservers [dnsServer] exactly when a DNS server is given; for a
\* dynamic intent it has dhcp4 true and nothing else.
C18_DocumentOfIntent ==
    (req.endpoint = "_generate_netplan_yaml" /\ Done /\ Truthy(req.data.interface_name))
        => /\ ValidStatic =>
                /\ req.rc.raised = NoRaise
                /\ req.rc.doc.interface = req.data.interface_name
                /\ req.rc.doc.props =
                      IF Truthy(req.data.dnsServer)
                      THEN [dhcp4 |-> FALSE,
                            addresses |-> << <<req.data.ipAddress, "/",
                                               NetmaskPrefix[req.data.subnetMask]>> >>,
                            routes |-> << [to |-> "default", via |-> req.data.gateway] >>,
                            nameservers |-> [addresses |-> <<req.data.dnsServer>>]]
                      ELSE [dhcp4 |-> FALSE,
                            addresses |-> << <<req.data.ipAddress, "/",
                                               NetmaskPrefix[req.data.subnetMask]>> >>,
                            routes |-> << [to |-> "default", via |-> req.data.gateway] >>]
           /\ req.data.ipType = "dynamic" =>
                /\ req.rc.raised = NoRaise
                /\ req.rc.doc.props = [dhcp4 |-> TRUE]

C18_StaticWithoutDns ==
    /\ req.endpoint = "_generate_netplan_yaml" /\ Done
    /\ ValidStatic
    /\ req.data.subnetMask = "255.255.0.0"
    /\ ~Truthy(req.data.dnsServer)
    /\ DOMAIN req.rc.doc.props = {"dhcp4", "addresses", "routes"}
    /\ req.rc.doc.props.addresses = << <<"192.168.1.50", "/", 16>> >>

\* C19: with no interface to be found, /apply_network_settings, whatever
\* the body, and /disable_dhcp answer 500, pass no command to run_command
\* and write no file.
C19_NoInterfaceIs500 ==
    (req.endpoint \in {"network", "dhcp"} /\ Done /\ ~Detected)
        => /\ req.resp.code = 500
           /\ req.trace = <<>>
           /\ fs = req.pre

\* The same for the bodies that are not empty: the empty body is answered
\* 400 "No JSON data provided." before the interface is looked for.
C19_NoInterfaceIs500UnlessEmpty ==
    (req.endpoint \in {"network", "dhcp"} /\ Done /\ ~Detected)
        => /\ req.resp.code = IF req.data.json = "empty" THEN 400 ELSE 500
           /\ req.resp.status = "error" \/ req.data.json = "list"
           /\ req.trace = <<>>
           /\ fs = req.pre

C19_ValidStaticWithoutInterface ==
    /\ req.endpoint = "network" /\ Done /\ ~Detected /\ Legacy
    /\ req.data.json = "object" /\ req.data.ipType = "static"
    /\ ~StaticIncomplete(req.data)
    /\ req.resp.code = 500
    /\ req.trace = <<>>

\* C20: every response of the three handlers has a code among 200, 400 and
\* 500 and a JSON body with status and message.
C20_AlwaysJsonResponse ==
    (req.endpoint \in {"network", "dhcp", "time"} /\ Done)
        => /\ req.resp.code \in {200, 400, 500}
           /\ req.resp.status \in {"success", "error"}
           /\ req.resp.message # NoRaise

\* The state C20 does not allow: a JSON list sent to /apply_time_settings
\* is answered by the framework, not by the handler.
C20_ListBodyEscapes ==
    /\ req.endpoint = "time" /\ Done
    /\ req.data.json = "list"
    /\ req.resp.code = 500
    /\ req.resp.status = None

\* The request in hand is one for which no declarative document can be
\* built: no interface, an unknown ipType, a static request with a field
\* missing, or a mask that is no netmask.
BuildFails ==
    /\ req.endpoint = "network" /\ req.data.json = "object"
    /\ \/ ~Detected
       \/ BadIpType(req.data)
       \/ StaticIncomplete(req.data)
       \/ BadMask(req.data)

NetplanApplyCmd == <<"netplan", "apply">>

NetplanWrites ==
    SelectSeq(FileWrites, LAMBDA e : e.cmd = <<NETPLAN_CONFIG_FILE>>)

\* The lines yaml.dump writes for the document of the request in hand.
Dumped ==
    YamlDump(_generate_netplan_yaml(req.data.ipType, req.data.ipAddress,
                 req.data.subnetMask, req.data.gateway, req.data.dnsServer,
                 _get_network_interface_name).doc)

\* C21: on a release other than 16.04, a request for which no document can
\* be built never opens the declarative file and never runs netplan apply,
\* and the file stays what it was; a write that went through left the dump of
\* the complete document.
C21_BuildFailureWritesNothing ==
    (req.endpoint = "network" /\ ~Legacy)
        => /\ BuildFails => /\ NetplanWrites = <<>>
                            /\ ~Issued(NetplanApplyCmd)
                            /\ fs[NETPLAN_CONFIG_FILE] = req.pre[NETPLAN_CONFIG_FILE]
           /\ (NetplanWrites # <<>> /\ NetplanWrites[1].ok)
                 => fs[NETPLAN_CONFIG_FILE] = FileOf(Dumped)

\* A bad mask arrives when an earlier request has left its document in the
\* declarative file: it is answered 400 and the document is still there.
C21_BadMaskKeepsDocument ==
    /\ req.endpoint = "network" /\ Done /\ ~Legacy
    /\ BadMask(req.data)
    /\ req.resp.code = 400
    /\ req.trace = <<>>
    /\ req.pre[NETPLAN_CONFIG_FILE].exists
    /\ req.pre[NETPLAN_CONFIG_FILE].content # <<>>
    /\ fs[NETPLAN_CONFIG_FILE] = req.pre[NETPLAN_CONFIG_FILE]

\* C22: on either dialect, a static request whose mask is present and is no
\* netmask is rejected with no file opened for writing and no command passed
\* to run_command.
C22_BadMaskTouchesNothing ==
    (req.endpoint = "network" /\ Done /\ Detected /\ BadMask(req.data))
        => /\ req.resp.status = "error"
           /\ req.trace = <<>>
           /\ fs = req.pre

\* The state C22 does not allow: 16.04 has written the mask 255.0.255.0 into
\* the interface file, restarted networking and answered with success.
C22_BadMaskRenderedOnLegacy ==
    /\ req.endpoint = "network" /\ Done /\ Detected /\ Legacy
    /\ BadMask(req.data)
    /\ req.resp.code = 200
    /\ Succeeded(RestartCmd)
    /\ fs[InterfacesPath].exists
    /\ \E i \in 1..Len(fs[InterfacesPath].content) :
          fs[InterfacesPath].content[i] = <<"netmask", "255.0.255.0">>

\* On the other releases the same request is answered 400 with nothing done.
C22_BadMaskRejectedOnModern ==
    (req.endpoint = "network" /\ Done /\ Detected /\ ~Legacy /\ BadMask(req.data))
        => /\ req.resp.code = 400
           /\ req.trace = <<>>
           /\ fs = req.pre

IsPrefix(s, t) == Len(s) <= Len(t) /\ \A i \in 1..Len(s) : s[i] = t[i]

SetNtpFalse == <<"timedatectl", "set-ntp", "false">>
SetNtpTrue == <<"timedatectl", "set-ntp", "true">>

\* An NTP request in hand on a release other than 16.04.
ModernNtp ==
    /\ req.endpoint = "time" /\ ~Legacy
    /\ req.data.json = "object" /\ req.data.timeType = "ntp"

\* C23: an NTP request on a release other than 16.04 runs set-ntp false and
\* then set-ntp true and nothing else, whatever the ntpServer; the second
\* only after the first succeeded; it is answered 200 exactly when both
\* succeeded and otherwise 500 with the output of the command that failed.
C23_ModernNtpSequence ==
    ModernNtp
        => /\ IsPrefix(CommandLists, <<SetNtpFalse, SetNtpTrue>>)
           /\ FileWrites = <<>>
           /\ Len(Commands) = 2 => Commands[1].ok
           /\ Done =>
                /\ Commands # <<>>
                /\ req.resp.code = 200 <=> (Len(Commands) = 2 /\ Commands[2].ok)
                /\ req.resp.code = 200 => req.resp.message = NtpEnabled
                /\ req.resp.code # 200 =>
                      /\ req.resp.code = 500
                      /\ req.resp.status = "error"
                      /\ ~Commands[Len(Commands)].ok
                      /\ req.resp.message.detail = req.rc.out
                      /\ req.resp.message.text =
                            IF Len(Commands) = 1 THEN "Failed to disable NTP: "
                            ELSE "Failed to enable NTP: "

\* A request naming a server: the disable succeeded, the enable failed, 500.
C23_EnableFailedWithServer ==
    /\ ModernNtp /\ Done
    /\ req.data.ntpServer = "time.example.org"
    /\ CommandLists = <<SetNtpFalse, SetNtpTrue>>
    /\ Commands[1].ok /\ ~Commands[2].ok
    /\ req.resp.code = 500

\* A manual request with a date and a time of the calendar.
ValidManual ==
    /\ req.endpoint = "time"
    /\ req.data.json = "object" /\ req.data.timeType = "manual"
    /\ req.data.manualDate = "2024-01-15" /\ req.data.manualTime = "10:00"

SetTimeCmd ==
    <<"timedatectl", "set-time", req.data.manualDate, " ", req.data.manualTime, ":00">>

\* C24: a valid manual request on a release other than 16.04 runs set-ntp
\* false and then set-time '<date> <time>:00' and nothing else; the second
\* only after the first succeeded; it is answered 200 exactly when both
\* succeeded, otherwise 500, and set-ntp true is never run.
C24_ModernManualSequence ==
    (ValidManual /\ ~Legacy)
        => /\ IsPrefix(CommandLists, <<SetNtpFalse, SetTimeCmd>>)
           /\ FileWrites = <<>>
           /\ Len(Commands) = 2 => Commands[1].ok
           /\ ~Issued(SetNtpTrue)
           /\ Done =>
                /\ Commands # <<>>
                /\ req.resp.code = 200 <=> (Len(Commands) = 2 /\ Commands[2].ok)
                /\ req.resp.code = 200 => req.resp.message = ManualSet
                /\ req.resp.code # 200 =>
                      /\ req.resp.code = 500
                      /\ req.resp.status = "error"
                      /\ req.resp.message.detail = req.rc.out

\* The disable succeeded and set-time failed: 500, automatic sync left off.
C24_SetTimeFailed ==
    /\ ValidManual /\ ~Legacy /\ Done
    /\ CommandLists = <<SetNtpFalse, SetTimeCmd>>
    /\ Commands[1].ok /\ ~Commands[2].ok
    /\ req.resp.code = 500
    /\ req.resp.message.text = "Failed to set manual time: "

\* An NTP request in hand on 16.04.
LegacyNtp ==
    /\ req.endpoint = "time" /\ Legacy
    /\ req.data.json = "object" /\ req.data.timeType = "ntp"

AptUpdateCmd == <<"apt-get", "update">>
AptInstallCmd == <<"apt-get", "install", "-y", "ntpsec">>
WhichCmd == <<"which", "systemctl">>
StopCmds == {<<"systemctl", "stop", "ntp">>, <<"service", "ntp", "stop">>}
StartCmds == {<<"systemctl", "start", "ntp">>, <<"service", "ntp", "start">>}
SyncCmds == {<<"ntpsec-ntpdate", "-s", s>> : s \in {"pool.ntp.org", "time.example.org"}}

FailedOneOf(command_lists) == \E c \in command_lists : Failed(c)
SucceededOneOf(command_lists) == \E c \in command_lists : Succeeded(c)
IssuedOneOf(command_lists) == \E c \in command_lists : Issued(c)

NtpConfWritten ==
    \E i \in 1..Len(FileWrites) : FileWrites[i].cmd = <<NtpConfPath>> /\ FileWrites[i].ok

\* C25: an NTP request on 16.04 whose file write and daemon start succeeded
\* is answered with success, whatever apt-get update, apt-get install and
\* ntpsec-ntpdate did.
C25_BestEffortStepsNeverFail ==
    (LegacyNtp /\ Done /\ NtpConfWritten /\ SucceededOneOf(StartCmds))
        => /\ req.resp.code = 200
           /\ req.resp.status = "success"
           /\ req.resp.message = NtpEnabled

\* Update, install and the forced synchronization all failed; 200.
C25_AllThreeFailed ==
    /\ LegacyNtp /\ Done
    /\ Failed(AptUpdateCmd) /\ Failed(AptInstallCmd) /\ FailedOneOf(SyncCmds)
    /\ NtpConfWritten /\ SucceededOneOf(StartCmds)
    /\ req.resp.code = 200

DateCmd == <<"date", "-s", req.data.manualDate, " ", req.data.manualTime, ":00">>
HwclockCmd == <<"hwclock", "--systohc">>

\* C26: a time request on 16.04 in which the daemon stop, the daemon start
\* or the date command failed is answered with failure.
C26_StopStartDateFailuresFatal ==
    (req.endpoint = "time" /\ Legacy /\ Done /\ req.data.json = "object"
        /\ (FailedOneOf(StopCmds) \/ FailedOneOf(StartCmds) \/ Failed(DateCmd)))
        => /\ req.resp.code = 500
           /\ req.resp.status = "error"

\* The state C26 does not allow: the daemon stop failed, the rest went
\* through, and the NTP request is answered with success.
C26_StopFailedYetSuccess ==
    /\ LegacyNtp /\ Done
    /\ FailedOneOf(StopCmds)
    /\ NtpConfWritten /\ SucceededOneOf(StartCmds)
    /\ req.resp.code = 200
    /\ req.resp.message = NtpEnabled

\* The part of C26 that the code keeps: a failed daemon start or date
\* command is answered 500 with that command's output.
C26_StartAndDateFatal ==
    (req.endpoint = "time" /\ Legacy /\ Done /\ req.data.json = "object"
        /\ (FailedOneOf(StartCmds) \/ Failed(DateCmd)))
        => /\ req.resp.code = 500
           /\ req.resp.message.prefix = <<ErrApplyTime>>
           /\ req.resp.message.detail = req.rc.out

\* The steps of the request in hand, the `which systemctl` probes and the
\* log lines left out, each by its name.
StepName(e) ==
    CASE e.kind = "write" -> "write"
      [] e.kind = "cmd" /\ e.cmd = AptUpdateCmd -> "update"
      [] e.kind = "cmd" /\ e.cmd = AptInstallCmd -> "install"
      [] e.kind = "cmd" /\ e.cmd \in StopCmds -> "stop"
      [] e.kind = "cmd" /\ e.cmd \in StartCmds -> "start"
      [] e.kind = "cmd" /\ e.cmd \in SyncCmds -> "sync"
      [] e.kind = "cmd" /\ e.cmd = DateCmd -> "date"
      [] e.kind = "cmd" /\ e.cmd = HwclockCmd -> "hwclock"
      [] OTHER -> "other"

Steps ==
    LET s == SelectSeq(req.trace,
                 LAMBDA e : e.kind = "write" \/ (e.kind = "cmd" /\ e.cmd # WhichCmd))
    IN  [i \in 1..Len(s) |-> StepName(s[i])]

RequestedServer ==
    IF req.data.ntpServer = None THEN "pool.ntp.org" ELSE req.data.ntpServer

IsServerLine(line) == line # <<>> /\ line[1] = "server"

\* The first line of the file that begins with `server`.
FirstServerLine(file) ==
    LET i == CHOOSE k \in 1..Len(file.content) :
                 /\ IsServerLine(file.content[k])
                 /\ \A j \in 1..(k - 1) : ~IsServerLine(file.content[j])
    IN  file.content[i]

\* C27: an NTP request on 16.04 goes through update, install, stop, the
\* write of /etc/ntp.conf, start and the forced synchronization in that
\* order, each at most once; the synchronization only after a start that
\* succeeded; and the file written names the requested server, or
\* pool.ntp.org, in its first server line.
C27_LegacyNtpOrder ==
    LegacyNtp
        => /\ IsPrefix(Steps, <<"update", "install", "stop", "write", "start", "sync">>)
           /\ Len(Steps) = 6 => SucceededOneOf(StartCmds)
           /\ Len(Steps) >= 5 => NtpConfWritten
           /\ \A c \in SyncCmds : Issued(c) => c[3] = RequestedServer
           /\ NtpConfWritten =>
                 /\ fs[NtpConfPath].exists
                 /\ FirstServerLine(fs[NtpConfPath]) = <<"server", RequestedServer, "iburst">>

\* All six steps of a request naming a server, the file naming that server.
C27_SixStepsWithServer ==
    /\ LegacyNtp /\ Done
    /\ req.data.ntpServer = "time.example.org"
    /\ Steps = <<"update", "install", "stop", "write", "start", "sync">>
    /\ FirstServerLine(fs[NtpConfPath]) = <<"server", "time.example.org", "iburst">>
    /\ req.resp.code = 200

\* C28: a valid manual request on 16.04 goes through the daemon stop,
\* date -s '<date> <time>:00' and hwclock --systohc in that order; hwclock
\* only after a date that succeeded; and once the date succeeded the answer
\* is success whatever hwclock did.
C28_LegacyManualOrder ==
    (ValidManual /\ Legacy)
        => /\ IsPrefix(Steps, <<"stop", "date", "hwclock">>)
           /\ Len(Steps) = 3 => Succeeded(DateCmd)
           /\ Done =>
                /\ Len(Steps) >= 2
                /\ Succeeded(DateCmd) =>
                      /\ Len(Steps) = 3
                      /\ req.resp.code = 200
                      /\ req.resp.message = ManualSet
                /\ Failed(DateCmd) =>
                      /\ Len(Steps) = 2
                      /\ req.resp.code = 500

\* The date was set and hwclock failed; 200.
C28_HwclockFailed ==
    /\ ValidManual /\ Legacy /\ Done
    /\ Steps = <<"stop", "date", "hwclock">>
    /\ Succeeded(DateCmd) /\ Failed(HwclockCmd)
    /\ req.resp.code = 200

ReleaseCmd == <<"dhclient", "-r", _get_network_interface_name>>

NetStepName(e) ==
    CASE e.kind = "write" -> "write"
      [] e.kind = "cmd" /\ e.cmd = BackupCmd -> "backup"
      [] e.kind = "cmd" /\ e.cmd = RestoreCmd -> "restore"
      [] e.kind = "cmd" /\ e.cmd = ReleaseCmd -> "release"
      [] e.kind = "cmd" /\ e.cmd = RestartCmd -> "restart"
      [] e.kind = "cmd" /\ e.cmd = IfdownCmd -> "ifdown"
      [] e.kind = "cmd" /\ e.cmd = IfupCmd -> "ifup"
      [] OTHER -> "other"

NetSteps ==
    LET s == SelectSeq(req.trace, LAMBDA e : e.kind \in {"cmd", "write"})
    IN  [i \in 1..Len(s) |-> NetStepName(s[i])]

\* The steps up to the restore copy of the except clause.
ApplySteps == SelectSeq(NetSteps, LAMBDA n : n # "restore")

InterfacesWritten ==
    \E i \in 1..Len(FileWrites) :
        FileWrites[i].cmd = <<InterfacesPath>> /\ FileWrites[i].ok

\* A request in hand on 16.04 for which the interface file text is built.
LegacyApply ==
    /\ req.endpoint = "network" /\ Legacy /\ Detected
    /\ req.data.json = "object"
    /\ ~BadIpType(req.data) /\ ~StaticIncomplete(req.data)

\* C29: on 16.04 a request whose text is built goes through the backup
\* copy, the file write, one dhclient -r (static only), the restart, ifdown
\* and ifup in that order; no dhclient in dynamic mode; the restart follows
\* the release whatever the release did, and the answer does not depend on
\* it; ifdown only after a failed restart, ifup only after ifdown succeeded.
C29_LegacyApplyOrder ==
    LegacyApply
        => /\ IsPrefix(ApplySteps,
                       IF req.data.ipType = "static"
                       THEN <<"backup", "write", "release", "restart", "ifdown", "ifup">>
                       ELSE <<"backup", "write", "restart", "ifdown", "ifup">>)
           /\ req.data.ipType = "dynamic" => ~Issued(ReleaseCmd)
           /\ Issued(RestartCmd) => InterfacesWritten
           /\ Issued(IfdownCmd) => Failed(RestartCmd)
           /\ Issued(IfupCmd) => Succeeded(IfdownCmd)
           /\ Done =>
                /\ Issued(ReleaseCmd) => Issued(RestartCmd)
                /\ req.resp.code = 200 <=>
                      /\ InterfacesWritten
                      /\ Succeeded(RestartCmd) \/ Succeeded(IfupCmd)

\* The release failed, the restart ran and succeeded; 200.
C29_ReleaseFailedRestartOk ==
    /\ LegacyApply /\ Done
    /\ req.data.ipType = "static"
    /\ NetSteps = <<"backup", "write", "release", "restart">>
    /\ Failed(ReleaseCmd) /\ Succeeded(RestartCmd)
    /\ req.resp.code = 200

\* How many times the request in hand has passed command_list to run_command.
Count(command_list) ==
    Cardinality({i \in 1..Len(Commands) : Commands[i].cmd = command_list})

AtMostOnceEach ==
    (req.endpoint = "network" /\ Legacy)
        => \A c \in {RestartCmd, IfdownCmd, IfupCmd, BackupCmd, RestoreCmd} : Count(c) <= 1

BoundedCommands ==
    /\ (req.endpoint = "network" /\ Legacy) => Len(Commands) <= 6
    /\ req.endpoint = "dhcp" => Len(Commands) <= 6
    /\ LegacyNtp => Len(Commands) <= 8
    /\ req.endpoint \in {"network", "dhcp", "time"} => Len(Commands) <= 8

\* A 16.04 static request that ran all six commands, the restore last.
C30_SixNetworkCommands ==
    /\ req.endpoint = "network" /\ Legacy /\ Done
    /\ NetSteps = <<"backup", "write", "release", "restart", "ifdown", "ifup", "restore">>
    /\ Len(Commands) = 6
    /\ req.resp.code = 500

\* run_command was called with a list that begins with sudo, and returned.
SudoCall ==
    /\ Returned
    /\ req.data.command_list # <<>>
    /\ req.data.command_list[1] = "sudo"

\* The list called with, without its first token.
Rest == Tail(req.data.command_list)

\* C31 as stated: a call with a leading sudo returns what the call with the
\* rest of the list returns, for the same behaviour of the process, and
\* spawns a process exactly when that call does.
C31_SudoSameAsWithout ==
    SudoCall => req.rc = run_command(Rest, req.data.proc)

\* C31 as the code has it: the rest of the list is what is looked up in the
\* mock list and run, as it stands.  When the rest does not begin with sudo
\* that is what the call with the rest returns; when it does, the process
\* run is sudo, in mock mode too.
C31_SudoStrippedOnce ==
    SudoCall
        => /\ (Rest = <<>> \/ Rest[1] # "sudo")
                 => req.rc = run_command(Rest, req.data.proc)
           /\ (Rest # <<>> /\ Rest[1] = "sudo")
                 => /\ req.rc.spawned
                    /\ req.rc.out.name = "sudo"
                    /\ req.rc.out.kind \notin {"mock_echo", "mock_release"}

\* sudo sudo timedatectl in mock mode: a process is run, and it is sudo.
C31_SecondSudoRuns ==
    /\ SudoCall /\ IN_DOCKER_TEST_MODE
    /\ req.data.command_list = <<"sudo", "sudo", "timedatectl", "set-ntp", "true">>
    /\ req.rc.spawned
    /\ req.rc.out.name = "sudo"
    /\ run_command(Rest, req.data.proc).out.kind = "mock_echo"

\* A dynamic request in hand, an interface detected.
DynamicRequest ==
    /\ req.endpoint = "network" /\ Detected
    /\ req.data.json = "object" /\ req.data.ipType = "dynamic"

\* What the same host builds for the dynamic request that gives none of
\* ipAddress, subnetMask, gateway and dnsServer.
BareDynamicText ==
    IF Legacy
    THEN LegacyInterfacesConfig("dynamic", None, None, None, None,
                                _get_network_interface_name).text
    ELSE YamlDump(_generate_netplan_yaml("dynamic", None, None, None, None,
                                         _get_network_interface_name).doc)

\* The values the four fields take in the request in hand.
FieldValues ==
    {req.data.ipAddress, req.data.subnetMask, req.data.gateway, req.data.dnsServer}
        \ {None, ""}

ArtifactPath == IF Legacy THEN InterfacesPath ELSE NETPLAN_CONFIG_FILE

ArtifactWritten ==
    \E i \in 1..Len(FileWrites) : FileWrites[i].cmd = <<ArtifactPath>> /\ FileWrites[i].ok

\* C32: what a dynamic request builds, runs and answers is what the request
\* without the four address fields builds, runs and answers on the same
\* host: the text is that request's text, no command and no line written
\* holds a value of the four fields, the commands are those of the dialect,
\* and the answer follows from what the write and the commands did.
C32_DynamicIgnoresAddressFields ==
    DynamicRequest
        => /\ req.text = BareDynamicText
           /\ \A i \in 1..Len(Commands) :
                 /\ Commands[i].cmd \in
                       (IF Legacy
                        THEN {BackupCmd, RestartCmd, IfdownCmd, IfupCmd, RestoreCmd}
                        ELSE {NetplanApplyCmd})
                 /\ Range(Commands[i].cmd) \cap FieldValues = {}
           /\ \A p \in Paths :
                 fs[p] \in {req.pre[p], req.pre[InterfacesPath], req.pre[BackupPath],
                            FileOf(BareDynamicText), FileOf(<<>>)}
           /\ Done =>
                /\ req.resp.code = 200 <=>
                      /\ ArtifactWritten
                      /\ IF Legacy THEN Succeeded(RestartCmd) \/ Succeeded(IfupCmd)
                         ELSE Succeeded(NetplanApplyCmd)
                /\ req.resp.code \in {200, 500}
                /\ req.resp.message.text \in
                      {"Network configuration applied successfully.",
                       "Netplan configuration applied successfully.",
                       "Failed to apply network configuration: ",
                       "Failed to apply Netplan configuration: ", "OSError"}
                /\ req.resp.message.detail \in {NoOut, req.rc.out, req.raised.detail}

\* A dynamic request that gives all four fields, applied on 16.04: the file
\* is the one of the request that gives none.
C32_DynamicWithAllFields ==
    /\ DynamicRequest /\ Legacy /\ Done
    /\ req.data.ipAddress = "192.168.1.50" /\ req.data.subnetMask = "255.0.255.0"
    /\ req.data.gateway = "192.168.1.1" /\ req.data.dnsServer = "1.1.1.1"
    /\ req.resp.code = 200
    /\ fs[InterfacesPath] = FileOf(BareDynamicText)
    /\ CommandLists = <<BackupCmd, RestartCmd>>

\* _get_network_interface_name has returned, and what it scanned.
Scanned == req.endpoint = "_get_network_interface_name" /\ Done
AdapterNames == Adapters(req.data.listing)
WiredNames == {"eth0", "enp0s3"}

\* C33: discovery returns the first adapter of the scan that is wired (eth*
\* or enp*) when there is one, wherever it stands; else the first adapter;
\* and no interface exactly when the scan raises or gives no adapter.
C33_WiredFirstElseFirst ==
    Scanned
        => /\ req.rc = None <=> (~req.data.ok \/ AdapterNames = <<>>)
           /\ (req.data.ok /\ AdapterNames # <<>>)
                 => IF \E i \in 1..Len(AdapterNames) : AdapterNames[i] \in WiredNames
                    THEN \E i \in 1..Len(AdapterNames) :
                            /\ req.rc = AdapterNames[i]
                            /\ AdapterNames[i] \in WiredNames
                            /\ \A j \in 1..(i - 1) : AdapterNames[j] \notin WiredNames
                    ELSE req.rc = AdapterNames[1]

\* The wired adapter stands last in the scan, after lo and wlan0.
C33_WiredLast ==
    /\ Scanned /\ req.data.ok
    /\ AdapterNames = <<"lo", "wlan0", "enp0s3">>
    /\ req.rc = "enp0s3"

ReturnedKinds ==
    {"mock_release", "mock_echo", "stdout", "not_found", "needs_systemd", "failed",
     "not_found_path", "unexpected"}

DisableUnitMissing ==
    /\ req.endpoint = "dhcp"
    /\ req.pc \in {"dhcp_client_stop", "dhcp_pkill"}
    /\ ~req.rc.ok
    /\ req.rc.out.kind = "not_found"

LastLogged == req.trace[Len(req.trace)].cmd[1]

\* C36: a failed systemctl disable whose diagnostic holds "No such file or
\* directory" is logged at info level, as disabled if it was enabled.
C36_MissingUnitIsBenign ==
    DisableUnitMissing => LastLogged = "info"

\* The state C36 does not allow: the disable of NetworkManager failed with
\* that diagnostic and the handler logged the warning.
C36_MissingUnitWarned ==
    /\ DisableUnitMissing
    /\ req.pc = "dhcp_client_stop"
    /\ Commands[Len(Commands)].cmd = <<"systemctl", "disable", "NetworkManager">>
    /\ req.trace[Len(req.trace)] = LogEvent("warning")

\* C37: on a release other than 16.04, when the document has been written
\* and netplan apply fails, the answer is 500, the declarative file holds the
\* new document, netplan apply is the only command run (no copy before the
\* write, none after the failure), and no other file has changed.
C37_FailedApplyKeepsNewDocument ==
    (req.endpoint = "network" /\ Done /\ ~Legacy /\ Failed(NetplanApplyCmd))
        => /\ req.resp.code = 500
           /\ req.resp.status = "error"
           /\ fs[NETPLAN_CONFIG_FILE] = FileOf(Dumped)
           /\ CommandLists = <<NetplanApplyCmd>>
           /\ Len(FileWrites) = 1
           /\ \A p \in Paths \ {NETPLAN_CONFIG_FILE} : fs[p] = req.pre[p]

\* A static document has replaced the dynamic one an earlier request wrote,
\* netplan apply has failed, and the static document stays.
C37_NewDocumentLeftAfterFailure ==
    /\ req.endpoint = "network" /\ Done /\ ~Legacy
    /\ req.data.ipType = "static"
    /\ Failed(NetplanApplyCmd)
    /\ req.resp.code = 500
    /\ req.pre[NETPLAN_CONFIG_FILE].exists
    /\ req.pre[NETPLAN_CONFIG_FILE].content # <<>>
    /\ fs[NETPLAN_CONFIG_FILE] = FileOf(Dumped)
    /\ fs[NETPLAN_CONFIG_FILE] # req.pre[NETPLAN_CONFIG_FILE]

\* The last of ifdown, ifup and the restart to succeed in the request in
\* hand was ifdown: the interface has been taken down and not brought up.
LeftDown ==
    \E i \in 1..Len(Commands) :
        /\ Commands[i].cmd = IfdownCmd /\ Commands[i].ok
        /\ \A j \in (i + 1)..Len(Commands) :
              ~(Commands[j].cmd \in {IfupCmd, RestartCmd} /\ Commands[j].ok)

\* C38: on 16.04 the restore copy, once run, is the last command of the
\* request: nothing is run after it, and the request is answered 500 with
\* the error of the step that failed.
C38_RestoreIsLast ==
    (req.endpoint = "network" /\ Legacy /\ Issued(RestoreCmd))
        => /\ Commands[Len(Commands)].cmd = RestoreCmd
           /\ Count(RestoreCmd) = 1
           /\ Done
           /\ req.resp.code = 500
           /\ req.resp.status = "error"
           /\ req.resp.message.prefix = <<ErrApplyNet>>

\* ifdown succeeded, ifup failed, the file was restored, and nothing brought
\* the interface up again; the answer is the 500 of the failed apply.
C38_RestoredButDown ==
    /\ req.endpoint = "network" /\ Legacy /\ Done
    /\ Succeeded(IfdownCmd) /\ Failed(IfupCmd) /\ Succeeded(RestoreCmd)
    /\ fs[InterfacesPath] = req.pre[InterfacesPath]
    /\ LeftDown
    /\ Commands[Len(Commands)].cmd = RestoreCmd
    /\ req.resp.code = 500
    /\ req.resp.message.text = "Failed to apply network configuration: "

\* C39: in mock mode a request for which the document is built still opens
\* the declarative file, and when the write goes through the file holds the
\* new document, netplan apply is answered by the mock and the answer is
\* 200; on 16.04 the interface file is still written, cp, service, ifdown
\* and ifup are run as processes, and only dhclient -r is answered by the
\* mock.
C39_MockModeStillWrites ==
    (IN_DOCKER_TEST_MODE /\ req.endpoint = "network" /\ req.data.json = "object")
        => /\ (~Legacy /\ Done /\ ~BuildFails)
                 => /\ Len(NetplanWrites) = 1
                    /\ NetplanWrites[1].ok
                          => /\ fs[NETPLAN_CONFIG_FILE] = FileOf(Dumped)
                             /\ Len(Commands) = 1
                             /\ Commands[1].cmd = NetplanApplyCmd
                             /\ ~Commands[1].spawned /\ Commands[1].ok
                             /\ req.resp.code = 200
           /\ Legacy
                 => /\ \A i \in 1..Len(Commands) :
                          IF Commands[i].cmd = ReleaseCmd
                          THEN ~Commands[i].spawned /\ Commands[i].ok
                          ELSE /\ Commands[i].cmd[1] \in {"cp", "service", "ifdown", "ifup"}
                               /\ Commands[i].spawned
                    /\ InterfacesWritten /\ ~Issued(RestoreCmd)
                          => fs[InterfacesPath] = FileOf(Rendered)

\* In mock mode a static request has replaced the declarative file and is
\* answered 200, no process having been run.
C39_MockedApplyRealWrite ==
    /\ IN_DOCKER_TEST_MODE /\ req.endpoint = "network" /\ Done /\ ~Legacy
    /\ req.data.ipType = "static"
    /\ req.resp.code = 200
    /\ fs[NETPLAN_CONFIG_FILE] = FileOf(Dumped)
    /\ fs[NETPLAN_CONFIG_FILE] # req.pre[NETPLAN_CONFIG_FILE]
    /\ \A i \in 1..Len(Commands) : ~Commands[i].spawned

\* In mock mode on 16.04 the release was answered by the mock and the
\* restart, ifdown and ifup were run as processes.
C39_MockedReleaseRealFallback ==
    /\ IN_DOCKER_TEST_MODE /\ req.endpoint = "network" /\ Done /\ Legacy
    /\ NetSteps = <<"backup", "write", "release", "restart", "ifdown", "ifup">>
    /\ \A i \in 1..Len(Commands) : Commands[i].spawned <=> Commands[i].cmd # ReleaseCmd
    /\ fs[InterfacesPath] = FileOf(Rendered)

(***************************************************************************)
(* Specifications                                                          *)
(***************************************************************************)
\* The response sent, the handler's locals are gone: the service keeps
\* nothing of a request in memory, and takes the next one.
RequestEnds ==
    /\ req.pc = "done"
    /\ req' = IdleRequest
    /\ UNCHANGED <<host, fs>>

NetNext ==
    \/ apply_network_settings
    \/ _configure_legacy_network_ubuntu16
    \/ _write_and_apply_netplan
    \/ RequestEnds

DhcpNext ==
    \/ disable_dhcp
    \/ DhcpRelease
    \/ DhcpStopNetworkManager
    \/ DhcpDisableNetworkManager
    \/ DhcpStopClient
    \/ DhcpDisableClient
    \/ DhcpPkill
    \/ RequestEnds

TimeNext ==
    \/ apply_time_settings
    \/ LegacyNtpUpdate
    \/ LegacyNtpInstall
    \/ LegacyNtpWhichStop
    \/ LegacyNtpStop
    \/ LegacyNtpWrite
    \/ LegacyNtpWhichStart
    \/ LegacyNtpStart
    \/ LegacyNtpSync
    \/ LegacyManualWhich
    \/ LegacyManualStop
    \/ LegacyManualDate
    \/ LegacyManualHwclock
    \/ ModernNtpDisable
    \/ ModernNtpEnable
    \/ ModernManualDisable
    \/ ModernManualSetTime
    \/ RequestEnds

\* One specification per endpoint.  The handlers share no memory and write
\* disjoint files (the interface file, its backup and the netplan file;
\* none; /etc/ntp.conf), so what a handler does after any sequence of
\* requests is what it does after a sequence of requests to its endpoint.
SpecNet == Init /\ [][NetNext]_vars

SpecDhcp == Init /\ [][DhcpNext]_vars

SpecTime == Init /\ [][TimeNext]_vars

\* The service as a whole: a request to any endpoint after any other.
Next ==
    \/ NetNext
    \/ DhcpNext
    \/ TimeNext

Spec == Init /\ [][Next]_vars

\* The same, every handler going on to its next step: each command it
\* waits for has one of the outcomes of Procs, so returns.
FairSpec == Spec /\ WF_vars(Next)

\* How many commands the request in hand has run and files it has opened.
StepsTaken == Len(Commands) + Len(FileWrites)

\* No handler is ever left without a next step, and no request takes more
\* than eight steps (the seven commands and one file write of NTP on 16.04).
NeverStuck == (~Idle /\ ~Done) => ENABLED Next

BoundedSteps ==
    req.endpoint \in {"network", "dhcp", "time"} => StepsTaken <= 8

\* Every step of a handler runs one more command or opens one more file: no
\* step is one the handler can repeat without getting nearer to the limit.
EveryStepAdvances ==
    (~Idle /\ ~Done) => StepsTaken' = StepsTaken + 1

\* Every request in hand is answered.
EveryRequestAnswered == ~Idle ~> Done

\* C30: a 16.04 network request runs the restart, ifdown, ifup, the backup
\* copy and the restore copy at most once each; a request runs at most 6
\* commands (16.04 network), 6 (DHCP teardown), 8 (16.04 NTP); and every
\* request is answered after a bounded number of steps: each step of a
\* handler is followed by another or by the response, and each adds to a
\* count that never exceeds eight.
C30_NoRetryLoop ==
    /\ [](AtMostOnceEach /\ BoundedCommands /\ BoundedSteps /\ NeverStuck)
    /\ [][EveryStepAdvances]_vars

RunCommandNext ==
    \/ CallRunCommand
    \/ ProcessEnds
    \/ RequestEnds

\* run_command called with any command, the process doing anything.
SpecRunCommand == Init /\ [][RunCommandNext]_vars

\* The same, the caller and the processes that exit making progress.
FairRunCommand == SpecRunCommand /\ WF_vars(RunCommandNext)

DocumentNext ==
    \/ CallSubnetMaskToCidr
    \/ CallGenerateNetplanYaml
    \/ RequestEnds

\* The mask conversion and the document builder called with any arguments.
SpecDocument == Init /\ [][DocumentNext]_vars

ScanNext ==
    \/ CallGetNetworkInterfaceName
    \/ RequestEnds

\* The interface discovery called on any scan.
SpecScan == Init /\ [][ScanNext]_vars

UpgradeNext ==
    \/ NetNext
    \/ ReleaseChanges

UpgradeTimeNext ==
    \/ TimeNext
    \/ ReleaseChanges

\* Requests on a host whose release text may change between them.  As the
\* two handlers share no memory and write disjoint files, the network
\* requests and the time requests are taken one endpoint at a time.
SpecUpgrade == Init /\ [][UpgradeNext]_vars

SpecUpgradeTime == Init /\ [][UpgradeTimeNext]_vars

ModernTimeAfterLegacy ==
    /\ req.endpoint = "time" /\ Done
    /\ req.pre[NtpConfPath].exists
    /\ ~HostIs1604
    /\ ActsAsModern /\ ~ActsAsLegacy

====
